---- MODULE Spec2Model ----
(***************************************************************************)
(* task-flow-api: the request-to-persistence pipeline.                     *)
(*                                                                         *)
(* One request at a time travels endpoint -> session_scope -> service      *)
(* method -> repositories -> commit -> response mapping -> session_scope   *)
(* exit.  `committed` is the datastore as any other transaction sees it,   *)
(* `work` is the datastore as the request's session sees it (committed     *)
(* rows plus the session's pending and dirty objects, flushed or not).     *)
(* Every datastore round trip may raise (connection lost, constraint       *)
(* violated); the exception then travels through the service's except      *)
(* clauses and session_scope exactly as Python propagates it.              *)
(***************************************************************************)
EXTENDS Integers, Sequences, FiniteSets, TLC

(***************************************************************************)
(* Bounds of the model.                                                    *)
(***************************************************************************)
\* requests served in one behaviour
MaxRequests == 1
\* rows per table (the tables are unbounded in the program)
MaxRows == 2

(***************************************************************************)
(* Values.                                                                 *)
(***************************************************************************)
\* Python None for a text field, and for a datetime/date field
None == "<None>"
NoDate == 0 - 1

\* str(uuid.uuid4()) draws from this space
KeySpace == {"k1", "k2"}
\* texts a request may carry for name / description, and for email
Names == {"a", "b"}
Emails == {"x", "y"}

\* A datetime is a number of half days: 2*d is day d 00:00, 2*d+1 is day d
\* 12:00.  A date is a number of days.
TicksPerDay == 2
DateTimes == {3, 4}
\* page sizes and page numbers a list request may ask for (both gt=0)
Limits == {1, 2}
Pages == {1, 2}

\* Column(Date): the datastore keeps the calendar day of a datetime
ToDate(dt) == IF dt = NoDate THEN NoDate ELSE dt \div TicksPerDay
\* Optional[datetime] of a response DTO validated from a date: that day, 00:00
FromDate(d) == IF d = NoDate THEN NoDate ELSE d * TicksPerDay

\* the rows of the companion status tables (their enumerator column)
CustomerStatus == {"active", "inactive", "suspended"}
ProjectStatus == {"open", "closed"}
ActivityStatus == {"not_started", "in_progress", "completed", "blocked"}

\* Python truthiness of an Optional[str]
Truthy(v) == v # None /\ v # ""

(***************************************************************************)
(* The datastore: three tables, a row's id is its position.                *)
(***************************************************************************)
EmptyStore == [customers |-> << >>, projects |-> << >>, activities |-> << >>]

\* Time counts ticks.  The model classes are imported once, when the
\* process starts: `default=datetime.now(UTC)` and
\* `onupdate=datetime.now(UTC)` are evaluated then, and the columns keep
\* that one value as their default.  Rows the datastore already holds were
\* written by an earlier run; the n-th request is served n ticks after the
\* import.
SeedTime == 0
ImportTime == 1
RequestTime(n) == ImportTime + n

Customer(key, status, name, email) ==
    [customer_key |-> key, status |-> status, name |-> name, email |-> email,
     created_at |-> ImportTime, updated_at |-> ImportTime]

Project(key, customer_id, status, name, due_date) ==
    [project_key |-> key, customer_id |-> customer_id, status |-> status,
     name |-> name, due_date |-> due_date,
     created_at |-> ImportTime, updated_at |-> ImportTime]

Activity(key, project_id, status, description, due_date) ==
    [activity_key |-> key, project_id |-> project_id, status |-> status,
     description |-> description, due_date |-> due_date,
     created_at |-> ImportTime, updated_at |-> ImportTime]

\* a row an earlier run of the process wrote
Stored(row) == [row EXCEPT !.created_at = SeedTime, !.updated_at = SeedTime]

\* onupdate: a row the flush writes an UPDATE for gets the column's onupdate
\* value; a row whose attributes did not change is not written
onupdate(old, new) ==
    IF new # old THEN [new EXCEPT !.updated_at = ImportTime] ELSE new

\* datastore contents the process may find when it starts
SeedStores ==
    LET c == Stored(Customer("k1", "active", "a", "x"))
        p == Stored(Project("k1", 1, "open", "a", 1))
        a == Stored(Activity("k1", 1, "not_started", "a", NoDate))
        c2 == Stored(Customer("k2", "inactive", "b", "y"))
        p2 == Stored(Project("k2", 2, "closed", "b", 2))
    IN { EmptyStore,
         [customers |-> <<c>>, projects |-> << >>, activities |-> << >>],
         [customers |-> <<c>>, projects |-> <<p>>, activities |-> << >>],
         [customers |-> <<c>>, projects |-> <<p>>, activities |-> <<a>>],
         [customers |-> <<c, c2>>, projects |-> <<p, p2>>, activities |-> <<a>>] }

(***************************************************************************)
(* Exceptions and results.                                                 *)
(***************************************************************************)
NoExc == [type |-> "none", status_code |-> 0, detail |-> ""]

\* fastapi.HTTPException(status_code, detail)
HTTPException(status_code, detail) ==
    [type |-> "HTTPException", status_code |-> status_code, detail |-> detail]

\* exceptions of the datastore layer; detail is str(e)
NoResultFound ==
    [type |-> "NoResultFound", status_code |-> 0,
     detail |-> "No row was found when one was required"]
OperationalError ==
    [type |-> "OperationalError", status_code |-> 0,
     detail |-> "Lost connection to MySQL server during query"]
IntegrityError ==
    [type |-> "IntegrityError", status_code |-> 0,
     detail |-> "Duplicate entry for key"]
\* an attribute read on an object that lacks it
AttributeError ==
    [type |-> "AttributeError", status_code |-> 0,
     detail |-> "object has no attribute 'HTTP_404_NOT_FOUND'"]

HTTP_404_NOT_FOUND == 404
HTTP_500_INTERNAL_SERVER_ERROR == 500

\* what a service method, or an endpoint, has produced so far
NoResult == [kind |-> "none"]
Returned(body) == [kind |-> "returned", body |-> body]
Raised(e) == [kind |-> "raised", exc |-> e]

(***************************************************************************)
(* BaseRepository.get_enumerator: query(model).filter(enumerator == e).one()*)
(* returns the row, or raises NoResultFound when no row matches.           *)
(***************************************************************************)
\* a lookup ending in .first(): no row is None, nothing is raised
get_enumerator_First(model, enumerator, db_ok) ==
    IF ~db_ok THEN [row |-> None, exc |-> OperationalError]
    ELSE IF enumerator \in model THEN [row |-> enumerator, exc |-> NoExc]
    ELSE [row |-> None, exc |-> NoExc]

get_enumerator(model, enumerator, db_ok) ==
    IF ~db_ok THEN [row |-> None, exc |-> OperationalError]
    ELSE IF enumerator \in model THEN [row |-> enumerator, exc |-> NoExc]
    ELSE [row |-> None, exc |-> NoResultFound]

(***************************************************************************)
(* get_by_key of the three repositories: filter_by(key).first(); 0 is None *)
(***************************************************************************)
\* a lookup that forgets its filter: query(Customer).first()
CustomerGetByKey_NoFilter(store, customer_key) ==
    IF Len(store.customers) > 0 THEN 1 ELSE 0

CustomerGetByKey(store, customer_key) ==
    LET rows == store.customers
        Match(i) == rows[i].customer_key = customer_key
    IN IF \E i \in 1..Len(rows) : Match(i)
       THEN CHOOSE i \in 1..Len(rows) :
               Match(i) /\ \A j \in 1..(i - 1) : ~Match(j)
       ELSE 0

\* a lookup that forgets its filter: query(Project).first()
ProjectGetByKey_NoFilter(store, project_key) ==
    IF Len(store.projects) > 0 THEN 1 ELSE 0

ProjectGetByKey(store, project_key) ==
    LET rows == store.projects
        Match(i) == rows[i].project_key = project_key
    IN IF \E i \in 1..Len(rows) : Match(i)
       THEN CHOOSE i \in 1..Len(rows) :
               Match(i) /\ \A j \in 1..(i - 1) : ~Match(j)
       ELSE 0

ActivityGetByKey(store, activity_key) ==
    LET rows == store.activities
        Match(i) == rows[i].activity_key = activity_key
    IN IF \E i \in 1..Len(rows) : Match(i)
       THEN CHOOSE i \in 1..Len(rows) :
               Match(i) /\ \A j \in 1..(i - 1) : ~Match(j)
       ELSE 0

(***************************************************************************)
(* Repository create: a fresh key, the default status through              *)
(* get_enumerator, the fields, the parent, then add().  Nothing is         *)
(* committed here.  Result: the session's store and the exception raised.  *)
(***************************************************************************)
CustomerRepositoryCreate(store, customer_key, name, email, db_ok) ==
    LET status == get_enumerator(CustomerStatus, "active", db_ok)
        new_customer == Customer(customer_key, status.row, name, email)
    IN IF status.exc # NoExc
       THEN [store |-> store, exc |-> status.exc]
       ELSE [store |-> [store EXCEPT !.customers = Append(@, new_customer)],
             exc |-> NoExc]

\* a create that never assigns new_project.customer
ProjectRepositoryCreate_NoCustomer(store, project_key, name, customer, due_date, db_ok) ==
    LET status == get_enumerator(ProjectStatus, "open", db_ok)
        new_project ==
            Project(project_key, 0, status.row, name,
                    IF due_date # NoDate THEN ToDate(due_date) ELSE NoDate)
    IN IF status.exc # NoExc
       THEN [store |-> store, exc |-> status.exc]
       ELSE [store |-> [store EXCEPT !.projects = Append(@, new_project)],
             exc |-> NoExc]

ProjectRepositoryCreate(store, project_key, name, customer, due_date, db_ok) ==
    LET status == get_enumerator(ProjectStatus, "open", db_ok)
        new_project ==
            Project(project_key, customer, status.row, name,
                    IF due_date # NoDate THEN ToDate(due_date) ELSE NoDate)
    IN IF status.exc # NoExc
       THEN [store |-> store, exc |-> status.exc]
       ELSE [store |-> [store EXCEPT !.projects = Append(@, new_project)],
             exc |-> NoExc]

\* a create that resolves another default status
ActivityRepositoryCreate_WrongDefault(store, activity_key, description, due_date, project, db_ok) ==
    LET status == get_enumerator(ActivityStatus, "in_progress", db_ok)
        new_activity ==
            Activity(activity_key, project, status.row, description,
                     ToDate(due_date))
    IN IF status.exc # NoExc
       THEN [store |-> store, exc |-> status.exc]
       ELSE [store |-> [store EXCEPT !.activities = Append(@, new_activity)],
             exc |-> NoExc]

ActivityRepositoryCreate(store, activity_key, description, due_date, project, db_ok) ==
    LET status == get_enumerator(ActivityStatus, "not_started", db_ok)
        new_activity ==
            Activity(activity_key, project, status.row, description,
                     ToDate(due_date))
    IN IF status.exc # NoExc
       THEN [store |-> store, exc |-> status.exc]
       ELSE [store |-> [store EXCEPT !.activities = Append(@, new_activity)],
             exc |-> NoExc]

(***************************************************************************)
(* Repository update: each supplied (truthy) field is assigned to the      *)
(* entity in order; the status, last, goes through get_enumerator, which   *)
(* raises after the earlier fields have already been assigned.             *)
(***************************************************************************)
\* an update that assigns name without `if name:`
CustomerRepositoryUpdate_Overwrite(store, id, name, email, status, db_ok) ==
    LET c0 == store.customers[id]
        c1 == [c0 EXCEPT !.name = name]
        c2 == IF Truthy(email) THEN [c1 EXCEPT !.email = email] ELSE c1
        new_status == IF Truthy(status)
                      THEN get_enumerator(CustomerStatus, status, db_ok)
                      ELSE [row |-> None, exc |-> NoExc]
        c3 == IF Truthy(status) /\ new_status.exc = NoExc
              THEN [c2 EXCEPT !.status = new_status.row] ELSE c2
    IN [store |-> [store EXCEPT !.customers[id] = onupdate(c0, c3)], exc |-> new_status.exc]

CustomerRepositoryUpdate(store, id, name, email, status, db_ok) ==
    LET c0 == store.customers[id]
        c1 == IF Truthy(name) THEN [c0 EXCEPT !.name = name] ELSE c0
        c2 == IF Truthy(email) THEN [c1 EXCEPT !.email = email] ELSE c1
        new_status == IF Truthy(status)
                      THEN get_enumerator(CustomerStatus, status, db_ok)
                      ELSE [row |-> None, exc |-> NoExc]
        c3 == IF Truthy(status) /\ new_status.exc = NoExc
              THEN [c2 EXCEPT !.status = new_status.row] ELSE c2
    IN [store |-> [store EXCEPT !.customers[id] = onupdate(c0, c3)], exc |-> new_status.exc]

\* an update that stores the token it was given without resolving it
ProjectRepositoryUpdate_RawStatus(store, id, name, status, due_date, db_ok) ==
    LET p0 == store.projects[id]
        p1 == IF Truthy(name) THEN [p0 EXCEPT !.name = name] ELSE p0
        p2 == IF due_date # NoDate
              THEN [p1 EXCEPT !.due_date = ToDate(due_date)] ELSE p1
        p3 == IF Truthy(status) THEN [p2 EXCEPT !.status = status] ELSE p2
    IN [store |-> [store EXCEPT !.projects[id] = onupdate(p0, p3)], exc |-> NoExc]

ProjectRepositoryUpdate(store, id, name, status, due_date, db_ok) ==
    LET p0 == store.projects[id]
        p1 == IF Truthy(name) THEN [p0 EXCEPT !.name = name] ELSE p0
        p2 == IF due_date # NoDate
              THEN [p1 EXCEPT !.due_date = ToDate(due_date)] ELSE p1
        new_status == IF Truthy(status)
                      THEN get_enumerator(ProjectStatus, status, db_ok)
                      ELSE [row |-> None, exc |-> NoExc]
        p3 == IF Truthy(status) /\ new_status.exc = NoExc
              THEN [p2 EXCEPT !.status = new_status.row] ELSE p2
    IN [store |-> [store EXCEPT !.projects[id] = onupdate(p0, p3)], exc |-> new_status.exc]

\* an update that moves the activity to the newest project
ActivityRepositoryUpdate_Reattach(store, id, description, status, due_date, db_ok) ==
    LET a0 == [store.activities[id] EXCEPT !.project_id = Len(store.projects)]
        a1 == IF Truthy(description)
              THEN [a0 EXCEPT !.description = description] ELSE a0
        a2 == IF due_date # NoDate
              THEN [a1 EXCEPT !.due_date = ToDate(due_date)] ELSE a1
        new_status == IF Truthy(status)
                      THEN get_enumerator(ActivityStatus, status, db_ok)
                      ELSE [row |-> None, exc |-> NoExc]
        a3 == IF Truthy(status) /\ new_status.exc = NoExc
              THEN [a2 EXCEPT !.status = new_status.row] ELSE a2
    IN [store |-> [store EXCEPT !.activities[id] = onupdate(a0, a3)], exc |-> new_status.exc]

ActivityRepositoryUpdate(store, id, description, status, due_date, db_ok) ==
    LET a0 == store.activities[id]
        a1 == IF Truthy(description)
              THEN [a0 EXCEPT !.description = description] ELSE a0
        a2 == IF due_date # NoDate
              THEN [a1 EXCEPT !.due_date = ToDate(due_date)] ELSE a1
        new_status == IF Truthy(status)
                      THEN get_enumerator(ActivityStatus, status, db_ok)
                      ELSE [row |-> None, exc |-> NoExc]
        a3 == IF Truthy(status) /\ new_status.exc = NoExc
              THEN [a2 EXCEPT !.status = new_status.row] ELSE a2
    IN [store |-> [store EXCEPT !.activities[id] = onupdate(a0, a3)], exc |-> new_status.exc]

(***************************************************************************)
(* The unique=True columns: a flush that would leave two rows of a table   *)
(* with one external key raises IntegrityError.                            *)
(***************************************************************************)
UniqueKeys(store) ==
    /\ \A i, j \in 1..Len(store.customers) :
          store.customers[i].customer_key = store.customers[j].customer_key => i = j
    /\ \A i, j \in 1..Len(store.projects) :
          store.projects[i].project_key = store.projects[j].project_key => i = j
    /\ \A i, j \in 1..Len(store.activities) :
          store.activities[i].activity_key = store.activities[j].activity_key => i = j

(***************************************************************************)
(* Response mapping: status flattened to its token, parents to their       *)
(* external keys, a stored date read back as a datetime.                   *)
(***************************************************************************)
CustomerResponseDTO(store, id) ==
    LET c == store.customers[id]
    IN [customer_key |-> c.customer_key, name |-> c.name, email |-> c.email,
        status |-> c.status,
        created_at |-> c.created_at, updated_at |-> c.updated_at]

ProjectResponseDTO(store, id) ==
    LET p == store.projects[id]
    IN [project_key |-> p.project_key, name |-> p.name, status |-> p.status,
        customer_key |-> store.customers[p.customer_id].customer_key,
        due_date |-> FromDate(p.due_date),
        created_at |-> p.created_at, updated_at |-> p.updated_at]

ActivityResponseDTO(store, id) ==
    LET a == store.activities[id]
    IN [activity_key |-> a.activity_key,
        project_key |-> store.projects[a.project_id].project_key,
        description |-> a.description, status |-> a.status,
        due_date |-> FromDate(a.due_date)]

(***************************************************************************)
(* ProjectRepository.count_projects_by_customer and                        *)
(* list_projects_by_customer: one filter (customer; status row when a      *)
(* status is given; due_date <= cutoff when a cutoff is given), then       *)
(* count(), or offset((page - 1) * limit).limit(limit).all().  A DATE      *)
(* column compared with a datetime compares as that day 00:00; a NULL due  *)
(* date matches no cutoff.  The query has no ORDER BY: the datastore       *)
(* yields the matching rows in an order of its own choosing, query by      *)
(* query.                                                                  *)
(***************************************************************************)
\* a filter that forgets the customer
ProjectFilter_AnyCustomer(store, customer_id, status_row, due_date) ==
    {i \in 1..Len(store.projects) :
        LET p == store.projects[i]
        IN /\ status_row # None => p.status = status_row
           /\ due_date # NoDate =>
                 (p.due_date # NoDate /\ FromDate(p.due_date) <= due_date)}

\* the ids of the rows the filter keeps
ProjectFilter(store, customer_id, status_row, due_date) ==
    {i \in 1..Len(store.projects) :
        LET p == store.projects[i]
        IN /\ p.customer_id = customer_id
           /\ status_row # None => p.status = status_row
           /\ due_date # NoDate =>
                 (p.due_date # NoDate /\ FromDate(p.due_date) <= due_date)}

\* the orders in which the datastore may yield the rows of projects
Orderings(store) ==
    LET ids == 1..Len(store.projects)
    IN {o \in [ids -> ids] : \A i, j \in ids : i # j => o[i] # o[j]}

\* a count that leaves the due date cutoff out
count_projects_by_customer_NoCutoff(store, customer_id, status, due_date, db_ok) ==
    LET status_obj == IF Truthy(status)
                      THEN get_enumerator(ProjectStatus, status, db_ok)
                      ELSE [row |-> None, exc |-> NoExc]
    IN IF ~db_ok THEN [count |-> 0, exc |-> OperationalError]
       ELSE IF status_obj.exc # NoExc THEN [count |-> 0, exc |-> status_obj.exc]
       ELSE [count |-> Cardinality(ProjectFilter(store, customer_id,
                                                 status_obj.row, NoDate)),
             exc |-> NoExc]

count_projects_by_customer(store, customer_id, status, due_date, db_ok) ==
    LET status_obj == IF Truthy(status)
                      THEN get_enumerator(ProjectStatus, status, db_ok)
                      ELSE [row |-> None, exc |-> NoExc]
    IN IF ~db_ok THEN [count |-> 0, exc |-> OperationalError]
       ELSE IF status_obj.exc # NoExc THEN [count |-> 0, exc |-> status_obj.exc]
       ELSE [count |-> Cardinality(ProjectFilter(store, customer_id,
                                                 status_obj.row, due_date)),
             exc |-> NoExc]

\* a list whose offset is page * limit
list_projects_by_customer_ZeroBased(store, customer_id, status, due_date, limit, page, order, db_ok) ==
    LET status_obj == IF Truthy(status)
                      THEN get_enumerator(ProjectStatus, status, db_ok)
                      ELSE [row |-> None, exc |-> NoExc]
        kept == ProjectFilter(store, customer_id, status_obj.row, due_date)
        Kept(i) == i \in kept
        query == SelectSeq(order, Kept)
        offset == page * limit
        end == IF offset + limit < Len(query) THEN offset + limit ELSE Len(query)
    IN IF ~db_ok THEN [rows |-> << >>, exc |-> OperationalError]
       ELSE IF status_obj.exc # NoExc THEN [rows |-> << >>, exc |-> status_obj.exc]
       ELSE [rows |-> SubSeq(query, offset + 1, end), exc |-> NoExc]

\* order: the order in which the datastore yields the rows for this query
list_projects_by_customer(store, customer_id, status, due_date, limit, page, order, db_ok) ==
    LET status_obj == IF Truthy(status)
                      THEN get_enumerator(ProjectStatus, status, db_ok)
                      ELSE [row |-> None, exc |-> NoExc]
        kept == ProjectFilter(store, customer_id, status_obj.row, due_date)
        Kept(i) == i \in kept
        query == SelectSeq(order, Kept)
        offset == (page - 1) * limit
        end == IF offset + limit < Len(query) THEN offset + limit ELSE Len(query)
    IN IF ~db_ok THEN [rows |-> << >>, exc |-> OperationalError]
       ELSE IF status_obj.exc # NoExc THEN [rows |-> << >>, exc |-> status_obj.exc]
       ELSE [rows |-> SubSeq(query, offset + 1, end), exc |-> NoExc]

\* the fields ProjectResponseDTO declares; model_validate ignores any other
ProjectResponseFields ==
    {"project_key", "name", "status", "customer_key", "due_date",
     "created_at", "updated_at"}

ProjectResponseDTO_model_validate(project_data) ==
    [f \in (DOMAIN project_data) \cap ProjectResponseFields |-> project_data[f]]

ActivitiesOf(store, project_id) ==
    LET ids == [i \in 1..Len(store.activities) |-> i]
        Of(i) == store.activities[i].project_id = project_id
        mine == SelectSeq(ids, Of)
    IN [k \in 1..Len(mine) |->
           LET a == store.activities[mine[k]]
           IN [activity_key |-> a.activity_key, description |-> a.description,
               status |-> a.status, due_date |-> FromDate(a.due_date),
               created_at |-> a.created_at, updated_at |-> a.updated_at]]

\* the loop of ProjectService.list_projects_by_customer over one project
ProjectListItem(store, id, customer_key, include_activities) ==
    LET p == store.projects[id]
        plain == [project_key |-> p.project_key, name |-> p.name,
                  status |-> p.status, customer_key |-> customer_key,
                  due_date |-> FromDate(p.due_date),
                  created_at |-> p.created_at, updated_at |-> p.updated_at]
        withActivities ==
                 [project_key |-> p.project_key, name |-> p.name,
                  status |-> p.status, customer_key |-> customer_key,
                  due_date |-> FromDate(p.due_date),
                  created_at |-> p.created_at, updated_at |-> p.updated_at,
                  activities |-> ActivitiesOf(store, id)]
    IN ProjectResponseDTO_model_validate(
           IF include_activities THEN withActivities ELSE plain)

\* a response whose total_pages rounds down
PaginatedProjectsResponseDTO_Floor(store, customer_id, rows, total_items, limit, page, include_activities) ==
    [projects |-> [k \in 1..Len(rows) |->
                      ProjectListItem(store, rows[k],
                                      store.customers[customer_id].customer_key,
                                      include_activities)],
     total_items |-> total_items,
     total_pages |-> total_items \div limit,
     current_page |-> page,
     limit |-> limit]

PaginatedProjectsResponseDTO(store, customer_id, rows, total_items, limit, page, include_activities) ==
    [projects |-> [k \in 1..Len(rows) |->
                      ProjectListItem(store, rows[k],
                                      store.customers[customer_id].customer_key,
                                      include_activities)],
     total_items |-> total_items,
     total_pages |-> (total_items + limit - 1) \div limit,
     current_page |-> page,
     limit |-> limit]

(***************************************************************************)
(* The except clauses of the services.  CustomerService and                *)
(* ActivityService have the single clause `except Exception`, which also   *)
(* catches the HTTPException the method raised itself; ProjectService      *)
(* re-raises an HTTPException first.                                       *)
(***************************************************************************)
InternalError ==
    HTTPException(HTTP_500_INTERNAL_SERVER_ERROR, "An internal error occurred")

\* an except clause that hands the exception text to the client
CustomerServiceExcept_Leak(e) ==
    HTTPException(HTTP_500_INTERNAL_SERVER_ERROR, e.detail)

CustomerServiceExcept(e) == InternalError

\* ProjectService without its `except HTTPException` clause
ProjectServiceExcept_CatchAll(e) == InternalError

ProjectServiceExcept(e) == IF e.type = "HTTPException" THEN e ELSE InternalError

ActivityServiceExcept(e) == InternalError

(***************************************************************************)
(* BaseRepository.commit: session.commit() flushes what the session holds  *)
(* and makes it durable in one transaction, or raises and changes nothing. *)
(***************************************************************************)
\* a commit that writes before it fails
BaseRepositoryCommit_WritesThenFails(durable, pending, db_ok) ==
    IF ~db_ok THEN [store |-> pending, exc |-> OperationalError]
    ELSE IF ~UniqueKeys(pending) THEN [store |-> durable, exc |-> IntegrityError]
    ELSE [store |-> pending, exc |-> NoExc]

\* a commit against tables whose key columns lack unique=True
BaseRepositoryCommit_NoUnique(durable, pending, db_ok) ==
    IF ~db_ok THEN [store |-> durable, exc |-> OperationalError]
    ELSE [store |-> pending, exc |-> NoExc]

BaseRepositoryCommit(durable, pending, db_ok) ==
    IF ~db_ok THEN [store |-> durable, exc |-> OperationalError]
    ELSE IF ~UniqueKeys(pending) THEN [store |-> durable, exc |-> IntegrityError]
    ELSE [store |-> pending, exc |-> NoExc]

(***************************************************************************)
(* State.                                                                  *)
(***************************************************************************)
VARIABLES
    committed,  \* the datastore, as committed
    work,       \* the datastore as the request's session sees it
    pc,         \* where the request in flight is
    req,        \* the request in flight: operation and arguments
    ent,        \* the service method's local entity (row id), 0 before lookup
    listed,     \* list_projects_by_customer's locals: total_items, projects
    exc,        \* the exception propagating, NoExc when none
    svc,        \* what the service method returned or raised
    resp,       \* what left the endpoint's session_scope
    calls,      \* calls made for the request, in order
    before,     \* committed, as it was when the request came in
    staged,     \* work, as the request's last repository call left it
    cause,      \* the exception the service's except clause caught
    served,     \* requests completed
    last,       \* the request the one in flight follows up, NoLast when none
    loop,       \* the event loop thread, its session and the connection pool
    auth,       \* the API key header of the request received, and its number
    environ     \* the globals of shared.constants read from os.environ

vars == <<committed, work, pc, req, ent, listed, exc, svc, resp, calls, before,
          staged, cause, served, last, loop, auth, environ>>

NoListing == [total_items |-> 0, projects |-> << >>]

NoReq ==
    [op |-> "none", key |-> None, name |-> None, email |-> None,
     status |-> None, due_date |-> NoDate, limit |-> 0, page |-> 0,
     include_activities |-> FALSE, project_key |-> None]

\* no earlier request is remembered
NoLast == [req |-> NoReq, resp |-> NoResult, staged |-> EmptyStore]

\* settings.API_KEY, and what a request may carry in the api-key header:
\* nothing, the configured key, another key
API_KEY == "valid-api-key"
ApiKeyHeaders == {None, API_KEY, "invalid-api-key"}

HTTP_401_UNAUTHORIZED == 401

\* a check that lets a request without the header through
get_api_key_AcceptMissing(api_key_header) ==
    IF api_key_header = API_KEY \/ api_key_header = None
    THEN Returned(api_key_header)
    ELSE Raised(HTTPException(HTTP_401_UNAUTHORIZED, "Invalid or missing API Key"))

\* api.auth.get_api_key; APIKeyHeader(auto_error=False) gives None for a
\* request without the header
get_api_key(api_key_header) ==
    IF api_key_header = API_KEY
    THEN Returned(api_key_header)
    ELSE Raised(HTTPException(HTTP_401_UNAUTHORIZED, "Invalid or missing API Key"))

\* no request has been received with its header looked at
NoAuth == [header |-> None, for |-> 0 - 1]

\* SERVICE_NAME, APP_ENV, PROJECT_ENV = os.environ.get(...): None when the
\* variable is not set, else its text, which may be empty
RequiredVariables == {"SERVICE_NAME", "APP_ENV", "PROJECT_ENV"}
EnvValues == {None, "", "Task Flow", "development", "production"}

\* an environment with every variable set
SetEnviron ==
    [n \in RequiredVariables |->
        IF n = "SERVICE_NAME" THEN "Task Flow" ELSE "development"]

\* the clients whose requests may be in flight together
Clients == {"c1", "c2", "c3"}

\* create_engine(pool_size=..., max_overflow=..., poolclass=QueuePool): the
\* pool hands out at most pool_size + max_overflow connections
QueuePoolLimit(pool_size, max_overflow) == pool_size + max_overflow

\* The process as the requests in flight see it.  at[c] is where the request
\* of client c is; running is the request the event loop thread executes;
\* users are the requests between `session = cls.Session()` and
\* `session.close()`; in_transaction says that the thread's session has a
\* connection checked out, opened_by for whose round trip; checked_out counts
\* the connections out of the pool.
LoopOf(pool_size, max_overflow) ==
    [pool_size |-> pool_size, max_overflow |-> max_overflow,
     at |-> [c \in Clients |-> "away"], running |-> None, users |-> {},
     in_transaction |-> FALSE, opened_by |-> None, checked_out |-> 0]

\* DB_POOL_SIZE: int = 10, DB_MAX_OVERFLOW_SIZE: int = 10
NoLoop == LoopOf(10, 10)

Init ==
    /\ committed \in SeedStores
    /\ work = committed
    /\ pc = "idle"
    /\ req = NoReq
    /\ ent = 0
    /\ listed = NoListing
    /\ exc = NoExc
    /\ svc = NoResult
    /\ resp = NoResult
    /\ calls = << >>
    /\ before = committed
    /\ staged = committed
    /\ cause = NoExc
    /\ served = 0
    /\ last = NoLast
    /\ loop = NoLoop
    /\ auth = NoAuth
    /\ environ = SetEnviron

(***************************************************************************)
(* Steps shared by the service methods.                                    *)
(***************************************************************************)
\* x = await repository.get_by_key(key); if not x: raise HTTPException(404)
GetByKeyStep(id, call, detail, next) ==
    /\ pc = "lookup"
    /\ calls' = Append(calls, call)
    /\ \E db_ok \in BOOLEAN :
          IF ~db_ok
          THEN /\ exc' = OperationalError /\ pc' = "except" /\ ent' = 0
          ELSE IF id = 0
          THEN /\ exc' = HTTPException(HTTP_404_NOT_FOUND, detail)
               /\ pc' = "except" /\ ent' = 0
          ELSE /\ exc' = exc /\ pc' = next /\ ent' = id
    /\ UNCHANGED <<committed, work, req, listed, svc, resp, before, staged, cause, served, last, loop, auth, environ>>

\* a repository write that also commits what it stages
RepositoryStep_Commits(result, call) ==
    /\ calls' = Append(calls, call)
    /\ work' = result.store
    /\ staged' = result.store
    /\ committed' = result.store
    /\ IF result.exc = NoExc
       THEN pc' = "commit" /\ exc' = exc
       ELSE pc' = "except" /\ exc' = result.exc
    /\ UNCHANGED <<req, ent, listed, svc, resp, before, cause, served, last, loop, auth, environ>>

\* a repository create or update: result is [store, exc]
RepositoryStep(result, call) ==
    /\ calls' = Append(calls, call)
    /\ work' = result.store
    /\ staged' = result.store
    /\ IF result.exc = NoExc
       THEN pc' = "commit" /\ exc' = exc
       ELSE pc' = "except" /\ exc' = result.exc
    /\ UNCHANGED <<committed, req, ent, listed, svc, resp, before, cause, served, last, loop, auth, environ>>

\* self.repository.commit()
CommitStep ==
    /\ pc = "commit"
    /\ calls' = Append(calls, "commit")
    /\ \E db_ok \in BOOLEAN :
          LET r == BaseRepositoryCommit(committed, work, db_ok)
          IN /\ committed' = r.store
             /\ IF r.exc = NoExc
                THEN pc' = "map" /\ exc' = exc
                ELSE pc' = "except" /\ exc' = r.exc
    /\ UNCHANGED <<work, req, ent, listed, svc, resp, before, staged, cause, served, last, loop, auth, environ>>

\* ResponseDTO.model_validate({...}); return response_data.  Reading the
\* attributes loads what the session has expired or not yet loaded.
MapStep(body, loads) ==
    /\ pc = "map"
    /\ calls' = Append(calls, "model_validate")
    /\ \E db_ok \in (IF loads THEN BOOLEAN ELSE {TRUE}) :
          IF db_ok
          THEN /\ svc' = Returned(body) /\ pc' = "exit" /\ exc' = exc
          ELSE /\ svc' = svc /\ pc' = "except" /\ exc' = OperationalError
    /\ UNCHANGED <<committed, work, req, ent, listed, resp, before, staged, cause, served, last, loop, auth, environ>>

\* the except clauses: what they raise leaves the service method
ExceptStep(raised) ==
    /\ pc = "except"
    /\ cause' = exc
    /\ svc' = Raised(raised)
    /\ exc' = raised
    /\ pc' = "scope_except"
    /\ UNCHANGED <<committed, work, req, ent, listed, resp, calls, before, staged, served, last, loop, auth, environ>>

(***************************************************************************)
(* CustomerService                                                         *)
(***************************************************************************)
create_customer ==
    /\ req.op = "create_customer"
    /\ \/ /\ pc = "create"
          /\ \E customer_key \in KeySpace, db_ok \in BOOLEAN :
                RepositoryStep(
                    CustomerRepositoryCreate(work, customer_key, req.name,
                                             req.email, db_ok),
                    "customer_repository.create")
       \/ CommitStep
       \/ MapStep(CustomerResponseDTO(work, Len(work.customers)), TRUE)
       \/ ExceptStep(CustomerServiceExcept(exc))

get_customer ==
    /\ req.op = "get_customer"
    /\ \/ GetByKeyStep(CustomerGetByKey(work, req.key),
                       "customer_repository.get_by_key",
                       "Customer not found", "map")
       \/ MapStep(CustomerResponseDTO(work, ent), FALSE)
       \/ ExceptStep(CustomerServiceExcept(exc))

update_customer ==
    /\ req.op = "update_customer"
    /\ \/ GetByKeyStep(CustomerGetByKey(work, req.key),
                       "customer_repository.get_by_key",
                       "Customer not found", "update")
       \/ /\ pc = "update"
          /\ \E db_ok \in BOOLEAN :
                RepositoryStep(
                    CustomerRepositoryUpdate(work, ent, req.name, req.email,
                                             req.status, db_ok),
                    "customer_repository.update")
       \/ CommitStep
       \/ MapStep(CustomerResponseDTO(work, ent), TRUE)
       \/ ExceptStep(CustomerServiceExcept(exc))

(***************************************************************************)
(* ActivityService                                                         *)
(***************************************************************************)
create_activity ==
    /\ req.op = "create_activity"
    /\ \/ GetByKeyStep(ProjectGetByKey(work, req.key),
                       "project_repository.get_by_key",
                       "Project not found", "create")
       \/ /\ pc = "create"
          /\ \E activity_key \in KeySpace, db_ok \in BOOLEAN :
                RepositoryStep(
                    ActivityRepositoryCreate(work, activity_key, req.name,
                                             req.due_date, ent, db_ok),
                    "activity_repository.create")
       \/ CommitStep
       \/ MapStep(ActivityResponseDTO(work, Len(work.activities)), TRUE)
       \/ ExceptStep(ActivityServiceExcept(exc))

get_activity ==
    /\ req.op = "get_activity"
    /\ \/ GetByKeyStep(ActivityGetByKey(work, req.key),
                       "activity_repository.get_by_key",
                       "Activity not found", "map")
       \/ MapStep(ActivityResponseDTO(work, ent), TRUE)
       \/ ExceptStep(ActivityServiceExcept(exc))

update_activity ==
    /\ req.op = "update_activity"
    /\ \/ GetByKeyStep(ActivityGetByKey(work, req.key),
                       "activity_repository.get_by_key",
                       "Activity not found", "update")
       \/ /\ pc = "update"
          /\ \E db_ok \in BOOLEAN :
                RepositoryStep(
                    ActivityRepositoryUpdate(work, ent, req.name, req.status,
                                             req.due_date, db_ok),
                    "activity_repository.update")
       \/ CommitStep
       \/ MapStep(ActivityResponseDTO(work, ent), TRUE)
       \/ ExceptStep(ActivityServiceExcept(exc))

(***************************************************************************)
(* ProjectService                                                          *)
(***************************************************************************)
create_project ==
    /\ req.op = "create_project"
    /\ \/ GetByKeyStep(CustomerGetByKey(work, req.key),
                       "customer_repository.get_by_key",
                       "Customer not found", "create")
       \/ /\ pc = "create"
          /\ \E project_key \in KeySpace, db_ok \in BOOLEAN :
                RepositoryStep(
                    ProjectRepositoryCreate(work, project_key, req.name, ent,
                                            req.due_date, db_ok),
                    "project_repository.create")
       \/ CommitStep
       \/ MapStep(ProjectResponseDTO(work, Len(work.projects)), TRUE)
       \/ ExceptStep(ProjectServiceExcept(exc))

get_project ==
    /\ req.op = "get_project"
    /\ \/ GetByKeyStep(ProjectGetByKey(work, req.key),
                       "project_repository.get_by_key",
                       "Project not found", "map")
       \/ MapStep(ProjectResponseDTO(work, ent), TRUE)
       \/ ExceptStep(ProjectServiceExcept(exc))

update_project ==
    /\ req.op = "update_project"
    /\ \/ GetByKeyStep(ProjectGetByKey(work, req.key),
                       "project_repository.get_by_key",
                       "Project not found", "update")
       \/ /\ pc = "update"
          /\ \E db_ok \in BOOLEAN :
                RepositoryStep(
                    ProjectRepositoryUpdate(work, ent, req.name, req.status,
                                            req.due_date, db_ok),
                    "project_repository.update")
       \/ CommitStep
       \/ MapStep(ProjectResponseDTO(work, ent), TRUE)
       \/ ExceptStep(ProjectServiceExcept(exc))

\* customer = await self.customer_repository.get_by_key(customer_key)
\* if not customer: raise HTTPException(status_code=status.HTTP_404_NOT_FOUND, ...)
\* In list_projects_by_customer the name `status` is the method's parameter
\* (a str or None), not fastapi.status: building the HTTPException raises
\* AttributeError instead.
ListCustomerStep(id) ==
    /\ pc = "lookup"
    /\ calls' = Append(calls, "customer_repository.get_by_key")
    /\ \E db_ok \in BOOLEAN :
          IF ~db_ok
          THEN /\ exc' = OperationalError /\ pc' = "except" /\ ent' = 0
          ELSE IF id = 0
          THEN /\ exc' = AttributeError /\ pc' = "except" /\ ent' = 0
          ELSE /\ exc' = exc /\ pc' = "count" /\ ent' = id
    /\ UNCHANGED <<committed, work, req, listed, svc, resp, before, staged, cause, served, last, loop, auth, environ>>

list_projects_by_customer_service ==
    /\ req.op = "list_projects_by_customer"
    /\ \/ ListCustomerStep(CustomerGetByKey(work, req.key))
       \/ /\ pc = "count"
          /\ calls' = Append(calls, "project_repository.count_projects_by_customer")
          /\ \E db_ok \in BOOLEAN :
                LET r == count_projects_by_customer(work, ent, req.status,
                                                    req.due_date, db_ok)
                IN IF r.exc = NoExc
                   THEN /\ listed' = [listed EXCEPT !.total_items = r.count]
                        /\ pc' = "list" /\ exc' = exc
                   ELSE /\ listed' = listed /\ pc' = "except" /\ exc' = r.exc
          /\ UNCHANGED <<committed, work, req, ent, svc, resp, before, staged, cause, served, last, loop, auth, environ>>
       \/ /\ pc = "list"
          /\ calls' = Append(calls, "project_repository.list_projects_by_customer")
          /\ \E db_ok \in BOOLEAN, order \in Orderings(work) :
                LET r == list_projects_by_customer(work, ent, req.status,
                                                   req.due_date, req.limit,
                                                   req.page, order, db_ok)
                IN IF r.exc = NoExc
                   THEN /\ listed' = [listed EXCEPT !.projects = r.rows]
                        /\ pc' = "map" /\ exc' = exc
                   ELSE /\ listed' = listed /\ pc' = "except" /\ exc' = r.exc
          /\ UNCHANGED <<committed, work, req, ent, svc, resp, before, staged, cause, served, last, loop, auth, environ>>
       \/ MapStep(PaginatedProjectsResponseDTO(work, ent, listed.projects,
                                               listed.total_items, req.limit,
                                               req.page, req.include_activities),
                  req.include_activities /\ listed.projects # << >>)
       \/ ExceptStep(ProjectServiceExcept(exc))

(***************************************************************************)
(* MySQLConnector.session_scope                                            *)
(*     session = cls.Session()                                             *)
(*     try: yield session                                                  *)
(*     except Exception: session.rollback(); raise                         *)
(*     finally: session.close()                                            *)
(***************************************************************************)
\* session.rollback(): the session forgets what it staged, or raises
SessionRollback(durable, pending, db_ok) ==
    IF db_ok THEN [store |-> durable, exc |-> NoExc]
    ELSE [store |-> pending, exc |-> OperationalError]

\* a close() that keeps in the session what was pending
SessionClose_KeepsPending(durable, pending) == pending

\* session.close(): the transaction is released, never committed, and
\* every object is expunged from the session
SessionClose(durable, pending) == durable

\* cls.Session(): the scoped_session registry hands the thread the session
\* it already has, with whatever that session still holds
Session(durable, pending) == pending

\* an except clause that raises an error of its own instead of `raise`
ScopeReraise_Fresh(caught, rollback_exc) == OperationalError

\* an except clause that keeps the exception caught whatever rollback() did
ScopeReraise_Caught(caught, rollback_exc) == caught

\* the exception leaving the except clause: the one caught (bare raise),
\* unless rollback() raised inside the clause
ScopeReraise(caught, rollback_exc) ==
    IF rollback_exc = NoExc THEN caught ELSE rollback_exc

\* `with MySQLConnector.session_scope() as session:` entered by an endpoint
session_scope_begin(r, first) ==
    /\ pc = "idle"
    /\ req' = r
    /\ pc' = first
    /\ calls' = <<"Session()">>
    /\ before' = committed
    /\ staged' = committed
    /\ cause' = NoExc
    /\ work' = Session(committed, work)
    /\ ent' = 0
    /\ listed' = NoListing
    /\ exc' = NoExc
    /\ svc' = NoResult
    /\ resp' = NoResult
    /\ UNCHANGED <<committed, served, loop, auth, environ>>

\* a request that stands alone
session_scope_enter(r, first) ==
    /\ served < MaxRequests
    /\ last' = NoLast
    /\ session_scope_begin(r, first)

\* a request the client sends with the response to its previous one in hand
session_scope_follow(r, first) ==
    /\ served \in 1..MaxRequests
    /\ last' = [req |-> req, resp |-> resp, staged |-> staged]
    /\ session_scope_begin(r, first)

session_scope_except ==
    /\ pc = "scope_except"
    /\ \E db_ok \in BOOLEAN :
          LET r == SessionRollback(committed, work, db_ok)
          IN /\ work' = r.store
             /\ exc' = ScopeReraise(exc, r.exc)
             /\ calls' = IF r.exc = NoExc
                         THEN Append(calls, "rollback")
                         ELSE calls \o <<"rollback", "rollback raised">>
    /\ pc' = "finally"
    /\ UNCHANGED <<committed, req, ent, listed, svc, resp, before, staged, cause, served, last, loop, auth, environ>>

\* the endpoint's `if not x: raise HTTPException(404)` after the service
\* call never fires: a response DTO is truthy
session_scope_finally ==
    /\ pc \in {"exit", "finally"}
    /\ calls' = Append(calls, "close")
    /\ work' = SessionClose(committed, work)
    /\ resp' = IF exc = NoExc THEN svc ELSE Raised(exc)
    /\ pc' = "idle"
    /\ served' = served + 1
    /\ UNCHANGED <<committed, req, ent, listed, exc, svc, before, staged, cause, last, loop, auth, environ>>

(***************************************************************************)
(* Endpoints (api/routes): the request arrives with its validated DTO.     *)
(* project_key is the field of that name of ActivityUpdateDTO, which       *)
(* update_activity never reads; key is the path or parent key.  A create   *)
(* request may carry a status in its body: CustomerDTO, ProjectDTO and     *)
(* ActivityDTO declare no such field, and the services read none.          *)
(***************************************************************************)
Request(op, key, name, email, status, due_date, limit, page, include_activities) ==
    [op |-> op, key |-> key, name |-> name, email |-> email,
     status |-> status, due_date |-> due_date, limit |-> limit, page |-> page,
     include_activities |-> include_activities, project_key |-> None]

\* statuses an update request may carry: absent, empty, a row, no row
StatusInputs(row) == {None, "", row, "unknown"}

create_customer_endpoint ==
    /\ Len(committed.customers) < MaxRows
    /\ \E name \in Names, email \in Emails, status \in {None, "inactive"} :
          session_scope_enter(
              Request("create_customer", None, name, email, status, NoDate, 0, 0, FALSE),
              "create")

get_customer_endpoint ==
    /\ pc = "idle"
    /\ \E customer_key \in KeySpace :
        session_scope_enter(
            Request("get_customer", customer_key, None, None, None, NoDate, 0, 0, FALSE),
            "lookup")

update_customer_endpoint ==
    /\ pc = "idle"
    /\ \E customer_key \in KeySpace, name \in Names \cup {None},
       email \in Emails \cup {None}, status \in StatusInputs("inactive") :
        session_scope_enter(
            Request("update_customer", customer_key, name, email, status, NoDate, 0, 0, FALSE),
            "lookup")

create_project_endpoint ==
    /\ Len(committed.projects) < MaxRows
    /\ \E name \in Names, customer_key \in KeySpace,
          due_date \in DateTimes \cup {NoDate}, status \in {None, "closed"} :
          session_scope_enter(
              Request("create_project", customer_key, name, None, status, due_date, 0, 0, FALSE),
              "lookup")

get_project_endpoint ==
    /\ pc = "idle"
    /\ \E project_key \in KeySpace :
        session_scope_enter(
            Request("get_project", project_key, None, None, None, NoDate, 0, 0, FALSE),
            "lookup")

update_project_endpoint ==
    /\ pc = "idle"
    /\ \E project_key \in KeySpace, name \in Names \cup {None},
       status \in StatusInputs("closed"), due_date \in DateTimes \cup {NoDate} :
        session_scope_enter(
            Request("update_project", project_key, name, None, status, due_date, 0, 0, FALSE),
            "lookup")

list_projects_by_customer_endpoint ==
    /\ pc = "idle"
    /\ \E customer_key \in KeySpace, include_activities \in BOOLEAN,
       status \in {None, "open", "closed", "unknown"}, due_date \in {NoDate, 2, 3},
       limit \in Limits, page \in Pages :
        session_scope_enter(
            Request("list_projects_by_customer", customer_key, None, None, status,
                    due_date, limit, page, include_activities),
            "lookup")

create_activity_endpoint ==
    /\ Len(committed.activities) < MaxRows
    /\ \E description \in Names, project_key \in KeySpace,
          due_date \in DateTimes \cup {NoDate}, status \in {None, "completed"} :
          session_scope_enter(
              Request("create_activity", project_key, description, None, status, due_date, 0, 0, FALSE),
              "lookup")

get_activity_endpoint ==
    /\ pc = "idle"
    /\ \E activity_key \in KeySpace :
        session_scope_enter(
            Request("get_activity", activity_key, None, None, None, NoDate, 0, 0, FALSE),
            "lookup")

update_activity_endpoint ==
    /\ pc = "idle"
    /\ \E activity_key \in KeySpace, description \in Names \cup {None},
       status \in StatusInputs("in_progress"), due_date \in DateTimes \cup {NoDate},
       project_key \in {None, "k2"} :
        session_scope_enter(
            [Request("update_activity", activity_key, description, None, status, due_date, 0, 0, FALSE)
                EXCEPT !.project_key = project_key],
            "lookup")

Next ==
    \/ create_customer_endpoint
    \/ get_customer_endpoint
    \/ update_customer_endpoint
    \/ create_project_endpoint
    \/ get_project_endpoint
    \/ update_project_endpoint
    \/ list_projects_by_customer_endpoint
    \/ create_activity_endpoint
    \/ get_activity_endpoint
    \/ update_activity_endpoint
    \/ create_customer
    \/ get_customer
    \/ update_customer
    \/ create_project
    \/ get_project
    \/ update_project
    \/ list_projects_by_customer_service
    \/ create_activity
    \/ get_activity
    \/ update_activity
    \/ session_scope_except
    \/ session_scope_finally

Spec == Init /\ [][Next]_vars

(***************************************************************************)
(* Create, then get: the client reads the key in the response to its       *)
(* create and sends a get for that key, in a request and session of its    *)
(* own.                                                                    *)
(***************************************************************************)
get_created_customer_endpoint ==
    /\ pc = "idle"
    /\ req.op = "create_customer" /\ resp.kind = "returned"
    /\ session_scope_follow(
           Request("get_customer", resp.body.customer_key, None, None, None, NoDate, 0, 0, FALSE),
           "lookup")

get_created_project_endpoint ==
    /\ pc = "idle"
    /\ req.op = "create_project" /\ resp.kind = "returned"
    /\ session_scope_follow(
           Request("get_project", resp.body.project_key, None, None, None, NoDate, 0, 0, FALSE),
           "lookup")

get_created_activity_endpoint ==
    /\ pc = "idle"
    /\ req.op = "create_activity" /\ resp.kind = "returned"
    /\ session_scope_follow(
           Request("get_activity", resp.body.activity_key, None, None, None, NoDate, 0, 0, FALSE),
           "lookup")

RoundTripNext ==
    \/ create_customer_endpoint
    \/ create_project_endpoint
    \/ create_activity_endpoint
    \/ get_created_customer_endpoint
    \/ get_created_project_endpoint
    \/ get_created_activity_endpoint
    \/ create_customer
    \/ create_project
    \/ create_activity
    \/ get_customer
    \/ get_project
    \/ get_activity
    \/ session_scope_except
    \/ session_scope_finally

RoundTripSpec == Init /\ [][RoundTripNext]_vars

(***************************************************************************)
(* Requests one after another on the event-loop thread: a create_customer, *)
(* and after its response a later create request.  scoped_session keeps one *)
(* session per thread, so the later request's Session() is the session the *)
(* earlier request closed.                                                 *)
(***************************************************************************)
later_create_customer_endpoint ==
    /\ Len(committed.customers) < MaxRows
    /\ \E name \in Names, email \in Emails, status \in {None, "inactive"} :
          session_scope_follow(
              Request("create_customer", None, name, email, status, NoDate, 0, 0, FALSE),
              "create")

later_create_project_endpoint ==
    /\ Len(committed.projects) < MaxRows
    /\ \E name \in Names, customer_key \in KeySpace,
          due_date \in DateTimes \cup {NoDate}, status \in {None, "closed"} :
          session_scope_follow(
              Request("create_project", customer_key, name, None, status, due_date, 0, 0, FALSE),
              "lookup")

\* the datastores with one customer and no activity yet
SequelStores ==
    {s \in SeedStores : Len(s.customers) = 1 /\ s.activities = << >>}

SequelInit ==
    /\ committed \in SequelStores
    /\ work = committed
    /\ pc = "idle"
    /\ req = NoReq
    /\ ent = 0
    /\ listed = NoListing
    /\ exc = NoExc
    /\ svc = NoResult
    /\ resp = NoResult
    /\ calls = << >>
    /\ before = committed
    /\ staged = committed
    /\ cause = NoExc
    /\ served = 0
    /\ last = NoLast
    /\ loop = NoLoop
    /\ auth = NoAuth
    /\ environ = SetEnviron

SequelNext ==
    \/ create_customer_endpoint
    \/ later_create_customer_endpoint
    \/ later_create_project_endpoint
    \/ create_customer
    \/ create_project
    \/ session_scope_except
    \/ session_scope_finally

SequelSpec == SequelInit /\ [][SequelNext]_vars

(***************************************************************************)
(* Listing the projects of a customer page by page: a client that sends    *)
(* list requests, and after a listing that answered asks for a page of the *)
(* same listing again, with nothing written in between.                    *)
(***************************************************************************)
\* a datastore with projects of two customers, of both statuses, due on
\* day 1, on day 2 and without a due date
ListStores ==
    LET c1 == Stored(Customer("k1", "active", "a", "x"))
        c2 == Stored(Customer("k2", "active", "b", "y"))
        p1 == Stored(Project("p1", 1, "open", "a", 1))
        p2 == Stored(Project("p2", 1, "open", "b", 2))
        p3 == Stored(Project("p3", 2, "open", "a", 1))
        p4 == Stored(Project("p4", 1, "closed", "a", 1))
        p5 == Stored(Project("p5", 1, "open", "b", NoDate))
        a1 == Stored(Activity("a1", 1, "not_started", "a", NoDate))
    IN { [customers |-> <<c1, c2>>, projects |-> <<p1, p2, p3, p4>>,
          activities |-> <<a1>>],
         [customers |-> <<c1, c2>>, projects |-> <<p5, p3, p2, p1>>,
          activities |-> <<a1>>] }

ListInit ==
    /\ committed \in ListStores
    /\ work = committed
    /\ pc = "idle"
    /\ req = NoReq
    /\ ent = 0
    /\ listed = NoListing
    /\ exc = NoExc
    /\ svc = NoResult
    /\ resp = NoResult
    /\ calls = << >>
    /\ before = committed
    /\ staged = committed
    /\ cause = NoExc
    /\ served = 0
    /\ last = NoLast
    /\ loop = NoLoop
    /\ auth = NoAuth
    /\ environ = SetEnviron

\* the same listing, another page or the same page once more
list_other_page_endpoint ==
    /\ pc = "idle"
    /\ req.op = "list_projects_by_customer" /\ resp.kind = "returned"
    /\ \E page \in Pages :
          session_scope_follow([req EXCEPT !.page = page], "lookup")

ListNext ==
    \/ list_projects_by_customer_endpoint
    \/ list_other_page_endpoint
    \/ list_projects_by_customer_service
    \/ session_scope_except
    \/ session_scope_finally

ListSpec == ListInit /\ [][ListNext]_vars

(***************************************************************************)
(* Requests in flight together.  Every endpoint is an `async def` that the *)
(* event loop thread runs; `with MySQLConnector.session_scope()` and every *)
(* repository call under it are blocking calls of the synchronous Session: *)
(* the repository methods are `async def`, but nothing they await hands    *)
(* the thread back to the loop.  scoped_session keeps one Session per      *)
(* thread, so every request the loop thread runs gets the same Session.    *)
(* The Session checks a connection out of the QueuePool at its first round *)
(* trip and returns it at commit, rollback or close.                       *)
(***************************************************************************)
PoolSizes == {1, 2}
Overflows == {0, 1}

RoundTrips == {"query", "commit", "rollback"}

\* awaits that would hand the thread back at every datastore round trip
Suspends_AtRoundTrips(step) == step \in RoundTrips

\* does the handler hand the thread back to the loop at this step?
Suspends(step) == FALSE

\* a server that starts a handler whether or not another is running
LoopIdle_Always(l) == TRUE

\* the loop thread runs one handler at a time
LoopIdle(l) == l.running = None

requestVars == <<committed, work, pc, req, ent, listed, exc, svc, resp, calls,
                 before, staged, cause, served, last, auth, environ>>

ConcurrentInit ==
    /\ committed = EmptyStore
    /\ work = committed
    /\ pc = "idle"
    /\ req = NoReq
    /\ ent = 0
    /\ listed = NoListing
    /\ exc = NoExc
    /\ svc = NoResult
    /\ resp = NoResult
    /\ calls = << >>
    /\ before = committed
    /\ staged = committed
    /\ cause = NoExc
    /\ served = 0
    /\ last = NoLast
    /\ auth = NoAuth
    /\ environ = SetEnviron
    /\ \E pool_size \in PoolSizes, max_overflow \in Overflows :
          loop = LoopOf(pool_size, max_overflow)

\* the server accepts a request of client c
request_arrives(c) ==
    /\ loop.at[c] = "away"
    /\ loop' = [loop EXCEPT !.at[c] = "queued"]
    /\ UNCHANGED requestVars

\* the loop thread takes up the request of c: it calls the endpoint, which
\* enters session_scope (session = cls.Session()), or goes on with a handler
\* that had handed the thread back
loop_runs(c) ==
    /\ LoopIdle(loop)
    /\ loop.at[c] # "away"
    /\ loop' = IF loop.at[c] = "queued"
               THEN [loop EXCEPT !.running = c, !.at[c] = "scope",
                                 !.users = @ \cup {c}]
               ELSE [loop EXCEPT !.running = c]
    /\ UNCHANGED requestVars

\* a repository query or flush: the session's first round trip checks a
\* connection out of the pool, which has one to give below its limit
session_round_trip(c) ==
    /\ loop.running = c
    /\ loop.at[c] \in {"scope", "working", "ended"}
    /\ loop.in_transaction
          \/ loop.checked_out < QueuePoolLimit(loop.pool_size, loop.max_overflow)
    /\ loop' = [loop EXCEPT
                  !.at[c] = "working",
                  !.in_transaction = TRUE,
                  !.opened_by = IF loop.in_transaction THEN @ ELSE c,
                  !.checked_out = IF loop.in_transaction THEN @ ELSE @ + 1,
                  !.running = IF Suspends("query") THEN None ELSE c]
    /\ UNCHANGED requestVars

\* session.commit() or session.rollback(): the transaction ends and its
\* connection goes back to the pool
session_ends_transaction(c) ==
    /\ loop.running = c
    /\ loop.at[c] \in {"scope", "working"}
    /\ \E step \in {"commit", "rollback"} :
          loop' = [loop EXCEPT
                     !.at[c] = "ended",
                     !.in_transaction = FALSE,
                     !.opened_by = None,
                     !.checked_out = IF loop.in_transaction THEN @ - 1 ELSE @,
                     !.running = IF Suspends(step) THEN None ELSE c]
    /\ UNCHANGED requestVars

\* finally: session.close(), and the endpoint returns
session_closes(c) ==
    /\ loop.running = c
    /\ loop.at[c] \in {"scope", "working", "ended"}
    /\ loop' = [loop EXCEPT
                  !.at[c] = "away",
                  !.users = @ \ {c},
                  !.in_transaction = FALSE,
                  !.opened_by = None,
                  !.checked_out = IF loop.in_transaction THEN @ - 1 ELSE @,
                  !.running = None]
    /\ UNCHANGED requestVars

ConcurrentNext ==
    \E c \in Clients :
        \/ request_arrives(c)
        \/ loop_runs(c)
        \/ session_round_trip(c)
        \/ session_ends_transaction(c)
        \/ session_closes(c)

ConcurrentSpec == ConcurrentInit /\ [][ConcurrentNext]_vars

(***************************************************************************)
(* Requests as they arrive, with whatever api-key header they carry.       *)
(* Every customer, project and activity route is declared with             *)
(* dependencies=[Depends(get_api_key)]: the dependency runs before the     *)
(* endpoint function and what it raises is the response.  The health route *)
(* declares no dependency.                                                 *)
(***************************************************************************)
\* the operations of the routes that depend on get_api_key
GatedOps ==
    {"create_customer", "get_customer", "update_customer",
     "create_project", "get_project", "update_project",
     "list_projects_by_customer",
     "create_activity", "get_activity", "update_activity"}

\* a request has been received and not yet routed
Received == pc = "idle" /\ auth.for = served

\* the server receives a request and reads its api-key header
http_request ==
    /\ pc = "idle"
    /\ served < MaxRequests
    /\ auth.for # served
    /\ \E header \in ApiKeyHeaders : auth' = [header |-> header, for |-> served]
    /\ UNCHANGED <<committed, work, pc, req, ent, listed, exc, svc, resp, calls,
                   before, staged, cause, served, last, loop, environ>>

\* get_api_key raises: the endpoint function is not called
unauthorized ==
    /\ Received
    /\ get_api_key(auth.header).kind = "raised"
    /\ \E op \in GatedOps : req' = [NoReq EXCEPT !.op = op]
    /\ resp' = get_api_key(auth.header)
    /\ svc' = NoResult
    /\ calls' = << >>
    /\ before' = committed
    /\ staged' = committed
    /\ cause' = NoExc
    /\ exc' = NoExc
    /\ ent' = 0
    /\ listed' = NoListing
    /\ last' = NoLast
    /\ served' = served + 1
    /\ UNCHANGED <<committed, work, pc, loop, auth, environ>>

\* GET /v1/health
ping_health_check ==
    /\ Received
    /\ req' = [NoReq EXCEPT !.op = "ping_health_check"]
    /\ resp' = Returned([status |-> "ok"])
    /\ svc' = NoResult
    /\ calls' = << >>
    /\ before' = committed
    /\ staged' = committed
    /\ cause' = NoExc
    /\ exc' = NoExc
    /\ ent' = 0
    /\ listed' = NoListing
    /\ last' = NoLast
    /\ served' = served + 1
    /\ UNCHANGED <<committed, work, pc, loop, auth, environ>>

\* get_api_key returns: the endpoint function is called
authorized(endpoint) ==
    /\ Received
    /\ get_api_key(auth.header).kind = "returned"
    /\ endpoint

AuthNext ==
    \/ http_request
    \/ unauthorized
    \/ ping_health_check
    \/ authorized(create_customer_endpoint)
    \/ authorized(get_customer_endpoint)
    \/ authorized(update_customer_endpoint)
    \/ authorized(create_project_endpoint)
    \/ authorized(get_project_endpoint)
    \/ authorized(update_project_endpoint)
    \/ authorized(list_projects_by_customer_endpoint)
    \/ authorized(create_activity_endpoint)
    \/ authorized(get_activity_endpoint)
    \/ authorized(update_activity_endpoint)
    \/ create_customer
    \/ get_customer
    \/ update_customer
    \/ create_project
    \/ get_project
    \/ update_project
    \/ list_projects_by_customer_service
    \/ create_activity
    \/ get_activity
    \/ update_activity
    \/ session_scope_except
    \/ session_scope_finally

AuthSpec == Init /\ [][AuthNext]_vars

(***************************************************************************)
(* shared.constants.check_variables, called by app.main() before the       *)
(* application is created.                                                 *)
(*     variable_names = [k for k in dir()                                  *)
(*                       if k[:2] != "__" and not callable(globals()[k])]  *)
(* dir() without argument lists the names of the current local scope; it   *)
(* is evaluated in check_variables, where no local name is bound yet.      *)
(***************************************************************************)
OSError(message) == [type |-> "OSError", status_code |-> 0, detail |-> message]

\* the names dir() returns where check_variables calls it
dir == {}

check_variables(module_globals) ==
    LET variable_names == {k \in dir : k \in DOMAIN module_globals}
        variables_without_value ==
            {k \in variable_names : module_globals[k] = ""}
    IN IF variables_without_value # {}
       THEN Raised(OSError("A Error occurred while checking variables, please verify these variables without values"))
       ELSE Returned(None)

StartupInit ==
    /\ committed = EmptyStore
    /\ work = committed
    /\ pc = "idle"
    /\ req = NoReq
    /\ ent = 0
    /\ listed = NoListing
    /\ exc = NoExc
    /\ svc = NoResult
    /\ resp = NoResult
    /\ calls = << >>
    /\ before = committed
    /\ staged = committed
    /\ cause = NoExc
    /\ served = 0
    /\ last = NoLast
    /\ loop = NoLoop
    /\ auth = NoAuth
    /\ environ \in [RequiredVariables -> EnvValues]

\* app.main(): check_variables()
main ==
    /\ req = NoReq
    /\ req' = [NoReq EXCEPT !.op = "check_variables"]
    /\ resp' = check_variables(environ)
    /\ UNCHANGED <<committed, work, pc, ent, listed, exc, svc, calls, before,
                   staged, cause, served, last, loop, auth, environ>>

StartupNext == main

StartupSpec == StartupInit /\ [][StartupNext]_vars

(***************************************************************************)
(* Properties.                                                             *)
(***************************************************************************)
\* the request has left its endpoint; req, svc, resp, calls describe it
Done == pc = "idle" /\ served > 0

Called(call) == \E i \in 1..Len(calls) : calls[i] = call

WriteOps == {"create_customer", "update_customer", "create_project",
             "update_project", "create_activity", "update_activity"}

\* the last n calls of the request
LastCalls(n) == IF Len(calls) >= n THEN SubSeq(calls, Len(calls) - n + 1, Len(calls))
           ELSE << >>

\* C1 as stated: a create or update that ends with an exception leaves the
\* committed store as it was before the call, one that returns has committed
\* everything it staged, and never a strict part of it.
C1_AsStated ==
    /\ committed \in {before, staged}
    /\ (Done /\ req.op \in WriteOps) =>
          /\ svc.kind = "raised" => committed = before
          /\ svc.kind = "returned" => committed = staged

\* C1, amended: at every moment the committed store is the one before the
\* call or the one with everything the call staged.  A call that returns has
\* committed all it staged; a call that raises before or in commit has
\* committed nothing; a call that raises after commit, in response mapping,
\* has committed all it staged.
C1_AllOrNothing ==
    /\ committed \in {before, staged}
    /\ (Done /\ req.op \in WriteOps) =>
          /\ svc.kind = "returned" => (Called("commit") /\ committed = staged)
          /\ (svc.kind = "raised" /\ ~Called("model_validate")) => committed = before
          /\ (svc.kind = "raised" /\ Called("model_validate")) => committed = staged

\* an update that assigned a field in the session, then failed: nothing of
\* it is committed
C1_Witness ==
    /\ Done /\ req.op = "update_customer" /\ svc.kind = "raised"
    /\ staged # before /\ committed = before
    /\ ~Called("model_validate")

\* C2 as stated: when the body raises, rollback, then close, and the same
\* exception leaves the scope; when the body returns, the scope only closes.
C2_AsStated ==
    Done =>
        /\ svc.kind = "raised" =>
              /\ LastCalls(2) = <<"rollback", "close">>
              /\ resp = Raised(svc.exc)
        /\ svc.kind = "returned" =>
              /\ LastCalls(2) = <<"model_validate", "close">>
              /\ ~Called("rollback")
              /\ resp = svc
        /\ calls[Len(calls)] = "close"
        /\ work = committed

\* C2, amended: when the body raises, rollback is called, then close, and
\* the same exception leaves the scope unless rollback itself raised, in
\* which case the rollback's exception leaves it, after close.  When the body
\* returns, the scope calls close and nothing else.  The session is closed
\* whenever control has left the scope.
C2_ScopeExit ==
    Done =>
        /\ (svc.kind = "raised" /\ ~Called("rollback raised")) =>
              /\ LastCalls(2) = <<"rollback", "close">>
              /\ resp = Raised(svc.exc)
        /\ (svc.kind = "raised" /\ Called("rollback raised")) =>
              /\ LastCalls(3) = <<"rollback", "rollback raised", "close">>
              /\ resp = Raised(OperationalError)
        /\ svc.kind = "returned" =>
              /\ LastCalls(2) = <<"model_validate", "close">>
              /\ ~Called("rollback")
              /\ resp = svc
        /\ svc.kind # "none"
        /\ calls[Len(calls)] = "close"
        /\ work = committed

\* a body that raised after staging, rolled back and closed
C2_Witness ==
    /\ Done /\ svc.kind = "raised" /\ staged # before
    /\ LastCalls(2) = <<"rollback", "close">>
    /\ resp = Raised(svc.exc)

\* no row of the table carries the key
NoCustomer(store, key) ==
    \A i \in 1..Len(store.customers) : store.customers[i].customer_key # key
NoProject(store, key) ==
    \A i \in 1..Len(store.projects) : store.projects[i].project_key # key
NoActivity(store, key) ==
    \A i \in 1..Len(store.activities) : store.activities[i].activity_key # key

\* the service's lookup got its answer from the datastore
LookupAnswered == cause.type # "OperationalError"

NotFound(detail) == Raised(HTTPException(404, detail))

\* C3: create_project with a customer_key no customer carries never calls
\* ProjectRepository.create, stages nothing, commits nothing, and raises
\* HTTP 404 "Customer not found".
C3_CreateProjectUnknownCustomer ==
    (req.op = "create_project" /\ NoCustomer(before, req.key)) =>
        /\ ~Called("project_repository.create")
        /\ ~Called("commit")
        /\ staged = before /\ work = before /\ committed = before
        /\ (Done /\ LookupAnswered) => svc = NotFound("Customer not found")

C3_Witness ==
    /\ Done /\ req.op = "create_project" /\ NoCustomer(before, req.key)
    /\ before.customers # << >>
    /\ svc = NotFound("Customer not found")
    /\ calls = <<"Session()", "customer_repository.get_by_key", "rollback", "close">>

\* C4 as stated: create_activity with a project_key no project carries
\* raises HTTP 404 "Project not found", never calls ActivityRepository.create,
\* stages nothing, commits nothing.
C4_AsStated ==
    (req.op = "create_activity" /\ NoProject(before, req.key)) =>
        /\ ~Called("activity_repository.create")
        /\ ~Called("commit")
        /\ staged = before /\ committed = before
        /\ (Done /\ LookupAnswered) => svc = NotFound("Project not found")

\* C5 as stated: get_customer and update_customer with a key no customer
\* carries raise HTTP 404 "Customer not found"; update_customer stages and
\* commits nothing then.
C5_AsStated ==
    (req.op \in {"get_customer", "update_customer"} /\ NoCustomer(before, req.key)) =>
        /\ ~Called("customer_repository.update")
        /\ ~Called("commit")
        /\ staged = before /\ committed = before
        /\ (Done /\ LookupAnswered) =>
              /\ svc = NotFound("Customer not found")
              /\ ~Called("rollback raised") => resp = NotFound("Customer not found")

\* C6 as stated: get_activity and update_activity with a key no activity
\* carries raise HTTP 404 "Activity not found"; update_activity does not call
\* the repository's update and commits nothing then.
C6_AsStated ==
    (req.op \in {"get_activity", "update_activity"} /\ NoActivity(before, req.key)) =>
        /\ ~Called("activity_repository.update")
        /\ ~Called("commit")
        /\ committed = before
        /\ (Done /\ LookupAnswered) => svc = NotFound("Activity not found")

\* C7: get_project and update_project with a key no project carries raise
\* HTTP 404 "Project not found"; list_projects_by_customer with a key no
\* customer carries raises HTTP 404 "Customer not found" without calling
\* count or list; the 404 leaves the method as it was raised.
C7_ProjectServiceNotFound ==
    /\ (req.op \in {"get_project", "update_project"} /\ NoProject(before, req.key)) =>
          /\ ~Called("project_repository.update")
          /\ ~Called("commit")
          /\ (Done /\ LookupAnswered) =>
                (svc = NotFound("Project not found") /\ svc.exc = cause)
    /\ (req.op = "list_projects_by_customer" /\ NoCustomer(before, req.key)) =>
          /\ ~Called("project_repository.count_projects_by_customer")
          /\ ~Called("project_repository.list_projects_by_customer")
          /\ (Done /\ LookupAnswered) =>
                (svc = NotFound("Customer not found") /\ svc.exc = cause)

\* C8: whatever a service method catches that is not an HTTPException of its
\* own leaves it as HTTP 500 with detail "An internal error occurred", a
\* detail that is not the text of the exception caught.
C8_InternalErrorOpaque ==
    (svc.kind = "raised" /\ cause.type # "HTTPException") =>
        /\ svc.exc.type = "HTTPException"
        /\ svc.exc.status_code = 500
        /\ svc.exc.detail = "An internal error occurred"
        /\ svc.exc.detail # cause.detail

\* a commit refused by the unique key, reported as the opaque 500
C8_Witness ==
    /\ Done /\ svc.kind = "raised" /\ cause = IntegrityError
    /\ req.op = "create_customer"
    /\ svc.exc.status_code = 500

UpdateOps == {"update_customer", "update_project", "update_activity"}

\* the update has returned its response
Updated(op) == Done /\ req.op = op /\ svc.kind = "returned"

\* a field the request leaves out (null or empty) keeps its value, a field
\* the request supplies takes the request's value
FieldUpdated(supplied, old, new) ==
    IF Truthy(supplied) THEN new = supplied ELSE new = old

\* C9 as stated: after an update of an existing entity, every field the
\* request does not supply (null or empty) has the value it had before and
\* every field it supplies, due_date included, has the value of the request.
C9_AsStated ==
    /\ Updated("update_customer") =>
          LET old == before.customers[ent]
              new == committed.customers[ent]
          IN /\ FieldUpdated(req.name, old.name, new.name)
             /\ FieldUpdated(req.email, old.email, new.email)
             /\ FieldUpdated(req.status, old.status, new.status)
    /\ Updated("update_project") =>
          LET old == before.projects[ent]
              new == committed.projects[ent]
          IN /\ FieldUpdated(req.name, old.name, new.name)
             /\ FieldUpdated(req.status, old.status, new.status)
             /\ IF req.due_date # NoDate
                THEN FromDate(new.due_date) = req.due_date
                ELSE new.due_date = old.due_date
    /\ Updated("update_activity") =>
          LET old == before.activities[ent]
              new == committed.activities[ent]
          IN /\ FieldUpdated(req.name, old.description, new.description)
             /\ FieldUpdated(req.status, old.status, new.status)
             /\ IF req.due_date # NoDate
                THEN FromDate(new.due_date) = req.due_date
                ELSE new.due_date = old.due_date

\* the stored due date is the calendar day the request's datetime falls on
DayOf(supplied, old, new) ==
    IF supplied # NoDate
    THEN new * TicksPerDay <= supplied /\ supplied < (new + 1) * TicksPerDay
    ELSE new = old

\* C9, amended: after an update of an existing entity, every field the
\* request does not supply (null or empty) has the value it had before; a
\* supplied name, email, description or status has the value of the request;
\* a supplied due_date is stored as the calendar day of the request's value,
\* its time of day dropped.  The key and the parent are never changed, and
\* no other row is.
C9_PartialUpdate ==
    /\ Updated("update_customer") =>
          LET old == before.customers[ent]
              new == committed.customers[ent]
          IN /\ FieldUpdated(req.name, old.name, new.name)
             /\ FieldUpdated(req.email, old.email, new.email)
             /\ FieldUpdated(req.status, old.status, new.status)
             /\ new.customer_key = old.customer_key
             /\ committed = [before EXCEPT !.customers[ent] = new]
    /\ Updated("update_project") =>
          LET old == before.projects[ent]
              new == committed.projects[ent]
          IN /\ FieldUpdated(req.name, old.name, new.name)
             /\ FieldUpdated(req.status, old.status, new.status)
             /\ DayOf(req.due_date, old.due_date, new.due_date)
             /\ new.project_key = old.project_key
             /\ new.customer_id = old.customer_id
             /\ committed = [before EXCEPT !.projects[ent] = new]
    /\ Updated("update_activity") =>
          LET old == before.activities[ent]
              new == committed.activities[ent]
          IN /\ FieldUpdated(req.name, old.description, new.description)
             /\ FieldUpdated(req.status, old.status, new.status)
             /\ DayOf(req.due_date, old.due_date, new.due_date)
             /\ new.activity_key = old.activity_key
             /\ new.project_id = old.project_id
             /\ committed = [before EXCEPT !.activities[ent] = new]

\* an update that supplies the email and the status and leaves the name out
C9_Witness ==
    /\ Updated("update_customer")
    /\ req.name = None /\ Truthy(req.email) /\ Truthy(req.status)
    /\ committed.customers[ent].email = req.email
    /\ committed.customers[ent].email # before.customers[ent].email
    /\ committed.customers[ent].status # before.customers[ent].status
    /\ committed.customers[ent].name = before.customers[ent].name

\* the request carries a status token that is no row of the status table
UnknownStatus ==
    /\ req.op \in UpdateOps
    /\ Truthy(req.status)
    /\ req.status \notin
          (IF req.op = "update_customer" THEN CustomerStatus
           ELSE IF req.op = "update_project" THEN ProjectStatus
           ELSE ActivityStatus)

\* C10: an update whose status token is no row of the status table fails,
\* commit is never called, and the committed store stays as it was before
\* the call, whatever name, description, email or due date the request
\* supplied and the repository assigned before resolving the status.
C10_UnknownStatusFailsWhole ==
    UnknownStatus =>
        /\ ~Called("commit")
        /\ committed = before
        /\ Done => (svc.kind = "raised" /\ work = before)

\* the repository assigned the supplied name, then failed on the status
C10_Witness ==
    /\ Done /\ UnknownStatus /\ req.op = "update_project"
    /\ Truthy(req.name) /\ req.due_date # NoDate
    /\ cause = NoResultFound
    /\ staged.projects[ent].name = req.name
    /\ staged # before /\ committed = before
    /\ svc.kind = "raised"

CreateOps == {"create_customer", "create_project", "create_activity"}

\* the create has returned its response
Created(op) == Done /\ req.op = op /\ svc.kind = "returned"

\* C11: in every committed state every project references a customer of
\* the store and every activity references a project of the store, whatever
\* requests, successful or failing, were served.
C11_ReferentialIntegrity ==
    /\ \A i \in 1..Len(committed.projects) :
          committed.projects[i].customer_id \in 1..Len(committed.customers)
    /\ \A i \in 1..Len(committed.activities) :
          committed.activities[i].project_id \in 1..Len(committed.projects)

\* a project just created under the customer the request named
C11_Witness ==
    /\ Created("create_project")
    /\ Len(committed.projects) = Len(before.projects) + 1
    /\ LET p == committed.projects[Len(committed.projects)]
       IN /\ p.customer_id \in 1..Len(committed.customers)
          /\ committed.customers[p.customer_id].customer_key = req.key

\* C12: in every committed state the status of every customer, project and
\* activity is a row of its status table; no create or update leaves an
\* entity with a missing or unknown status.
C12_StatusInvariant ==
    /\ \A i \in 1..Len(committed.customers) :
          committed.customers[i].status \in CustomerStatus
    /\ \A i \in 1..Len(committed.projects) :
          committed.projects[i].status \in ProjectStatus
    /\ \A i \in 1..Len(committed.activities) :
          committed.activities[i].status \in ActivityStatus

\* an update that changed the status of a project, to a row of the table
C12_Witness ==
    /\ Updated("update_project") /\ Truthy(req.status)
    /\ committed.projects[ent].status = req.status
    /\ committed.projects[ent].status # before.projects[ent].status

\* the external keys of a table
CustomerKeys(store) ==
    {store.customers[i].customer_key : i \in 1..Len(store.customers)}
ProjectKeys(store) ==
    {store.projects[i].project_key : i \in 1..Len(store.projects)}
ActivityKeys(store) ==
    {store.activities[i].activity_key : i \in 1..Len(store.activities)}

\* C13: in every committed state no two customers share a customer_key, no
\* two projects a project_key, no two activities an activity_key; the key a
\* successful create returns is none of the keys its table held before, and
\* the keys the table held before are all still there.
C13_KeyUniqueness ==
    /\ UniqueKeys(committed)
    /\ Created("create_customer") =>
          /\ svc.body.customer_key \notin CustomerKeys(before)
          /\ CustomerKeys(committed) = CustomerKeys(before) \cup {svc.body.customer_key}
    /\ Created("create_project") =>
          /\ svc.body.project_key \notin ProjectKeys(before)
          /\ ProjectKeys(committed) = ProjectKeys(before) \cup {svc.body.project_key}
    /\ Created("create_activity") =>
          /\ svc.body.activity_key \notin ActivityKeys(before)
          /\ ActivityKeys(committed) = ActivityKeys(before) \cup {svc.body.activity_key}

\* a second customer created beside the first, under another key
C13_Witness ==
    /\ Created("create_customer")
    /\ Len(committed.customers) = 2
    /\ committed.customers[1].customer_key # committed.customers[2].customer_key

\* C14: no update changes an entity's external key, a project's customer or
\* an activity's project: every row the store held before the request still
\* has its key and its parent, in the session and in the committed store,
\* whatever the update request carries - a project_key in an update_activity
\* request included.
C14_IdentityImmutable ==
    req.op \in UpdateOps =>
        \A store \in {work, committed} :
            /\ Len(store.customers) = Len(before.customers)
            /\ Len(store.projects) = Len(before.projects)
            /\ Len(store.activities) = Len(before.activities)
            /\ \A i \in 1..Len(before.customers) :
                  store.customers[i].customer_key = before.customers[i].customer_key
            /\ \A i \in 1..Len(before.projects) :
                  /\ store.projects[i].project_key = before.projects[i].project_key
                  /\ store.projects[i].customer_id = before.projects[i].customer_id
            /\ \A i \in 1..Len(before.activities) :
                  /\ store.activities[i].activity_key = before.activities[i].activity_key
                  /\ store.activities[i].project_id = before.activities[i].project_id

\* an update_activity that named another, existing project and changed the
\* description: the activity is still attached to its own project
C14_Witness ==
    /\ Updated("update_activity")
    /\ req.project_key # None /\ ~NoProject(before, req.project_key)
    /\ before.projects[before.activities[ent].project_id].project_key # req.project_key
    /\ committed.activities[ent].description # before.activities[ent].description
    /\ committed.activities[ent].project_id = before.activities[ent].project_id
    /\ svc.body.project_key # req.project_key

\* the get that followed a successful create has left its endpoint
GotCreated(op) ==
    Done /\ req.op = op /\ last # NoLast /\ last.resp.kind = "returned"

\* no datastore round trip of the request failed
Undisturbed == cause.type # "OperationalError"

\* C15 as stated: a get by the key a successful create returned, in a later
\* request, succeeds and returns that key, the field values given at
\* creation - the due_date given included - and the parent key given.
C15_AsStated ==
    /\ (GotCreated("get_customer") /\ Undisturbed) =>
          /\ svc.kind = "returned"
          /\ svc.body.customer_key = last.resp.body.customer_key
          /\ svc.body.name = last.req.name
          /\ svc.body.email = last.req.email
    /\ (GotCreated("get_project") /\ Undisturbed) =>
          /\ svc.kind = "returned"
          /\ svc.body.project_key = last.resp.body.project_key
          /\ svc.body.name = last.req.name
          /\ svc.body.customer_key = last.req.key
          /\ svc.body.due_date = last.req.due_date
    /\ (GotCreated("get_activity") /\ Undisturbed) =>
          /\ svc.kind = "returned"
          /\ svc.body.activity_key = last.resp.body.activity_key
          /\ svc.body.description = last.req.name
          /\ svc.body.project_key = last.req.key
          /\ svc.body.due_date = last.req.due_date

\* the due date read back is 00:00 of the day the given datetime falls on
SameDay(given, returned) ==
    IF given = NoDate THEN returned = NoDate
    ELSE /\ returned % TicksPerDay = 0
         /\ returned <= given /\ given < returned + TicksPerDay

\* C15, amended: a get by the key a successful create returned, in a later
\* request no datastore failure disturbs, succeeds and returns that key, the
\* name, email or description given at creation, the parent key given, and
\* as due date 00:00 of the calendar day of the due date given; it returns
\* what the create itself returned.
C15_CreateGetRoundTrip ==
    /\ (GotCreated("get_customer") /\ Undisturbed) =>
          /\ svc.kind = "returned"
          /\ svc.body.customer_key = last.resp.body.customer_key
          /\ svc.body.name = last.req.name
          /\ svc.body.email = last.req.email
          /\ svc.body = last.resp.body
    /\ (GotCreated("get_project") /\ Undisturbed) =>
          /\ svc.kind = "returned"
          /\ svc.body.project_key = last.resp.body.project_key
          /\ svc.body.name = last.req.name
          /\ svc.body.customer_key = last.req.key
          /\ SameDay(last.req.due_date, svc.body.due_date)
          /\ svc.body = last.resp.body
    /\ (GotCreated("get_activity") /\ Undisturbed) =>
          /\ svc.kind = "returned"
          /\ svc.body.activity_key = last.resp.body.activity_key
          /\ svc.body.description = last.req.name
          /\ svc.body.project_key = last.req.key
          /\ SameDay(last.req.due_date, svc.body.due_date)
          /\ svc.body = last.resp.body

\* a project created with a due date, then read back by its key
C15_Witness ==
    /\ GotCreated("get_project") /\ svc.kind = "returned"
    /\ last.req.op = "create_project" /\ last.req.due_date # NoDate
    /\ req.key = last.resp.body.project_key
    /\ svc.body.name = last.req.name
    /\ svc.body.customer_key = last.req.key

\* C16 as stated: every successful create returns a non-empty external key,
\* the supplied fields - the due_date supplied included - and the default
\* status of its type, whatever status the request body carried.
C16_AsStated ==
    /\ Created("create_customer") =>
          /\ Truthy(svc.body.customer_key)
          /\ svc.body.name = req.name /\ svc.body.email = req.email
          /\ svc.body.status = "active"
    /\ Created("create_project") =>
          /\ Truthy(svc.body.project_key)
          /\ svc.body.name = req.name /\ svc.body.customer_key = req.key
          /\ svc.body.due_date = req.due_date
          /\ svc.body.status = "open"
    /\ Created("create_activity") =>
          /\ Truthy(svc.body.activity_key)
          /\ svc.body.description = req.name /\ svc.body.project_key = req.key
          /\ svc.body.due_date = req.due_date
          /\ svc.body.status = "not_started"

\* C16, amended: every successful create returns a non-empty external key,
\* the supplied name, email or description, the supplied parent key, as due
\* date 00:00 of the calendar day of the due date supplied, and the default
\* status of its type - "active", "open", "not_started" - whatever status the
\* request body carried; the committed row has that status too.
C16_CreateDefaults ==
    /\ Created("create_customer") =>
          /\ Truthy(svc.body.customer_key)
          /\ svc.body.name = req.name /\ svc.body.email = req.email
          /\ svc.body.status = "active"
          /\ committed.customers[Len(committed.customers)].status = "active"
    /\ Created("create_project") =>
          /\ Truthy(svc.body.project_key)
          /\ svc.body.name = req.name /\ svc.body.customer_key = req.key
          /\ SameDay(req.due_date, svc.body.due_date)
          /\ svc.body.status = "open"
          /\ committed.projects[Len(committed.projects)].status = "open"
    /\ Created("create_activity") =>
          /\ Truthy(svc.body.activity_key)
          /\ svc.body.description = req.name /\ svc.body.project_key = req.key
          /\ SameDay(req.due_date, svc.body.due_date)
          /\ svc.body.status = "not_started"
          /\ committed.activities[Len(committed.activities)].status = "not_started"

\* an activity created by a request whose body carried a status
C16_Witness ==
    /\ Created("create_activity")
    /\ req.status = "completed"
    /\ svc.body.status = "not_started"
    /\ svc.body.description = req.name

\* the row the request created or updated, in a store
Written(store) ==
    IF req.op = "create_customer" THEN store.customers[Len(store.customers)]
    ELSE IF req.op = "create_project" THEN store.projects[Len(store.projects)]
    ELSE IF req.op = "create_activity" THEN store.activities[Len(store.activities)]
    ELSE IF req.op = "update_customer" THEN store.customers[ent]
    ELSE IF req.op = "update_project" THEN store.projects[ent]
    ELSE store.activities[ent]

\* created_at of every row the store held before the request is what it was
CreatedAtKept ==
    /\ \A i \in 1..Len(before.customers) :
          committed.customers[i].created_at = before.customers[i].created_at
    /\ \A i \in 1..Len(before.projects) :
          committed.projects[i].created_at = before.projects[i].created_at
    /\ \A i \in 1..Len(before.activities) :
          committed.activities[i].created_at = before.activities[i].created_at

\* C17 as stated: created_at of a created entity is the time of its
\* creation and no later request changes it; after a committed create or a
\* committed update that changed the entity, updated_at is the time of that
\* write, later than created_at when the entity was created earlier.
C17_AsStated ==
    /\ CreatedAtKept
    /\ (Done /\ req.op \in CreateOps /\ svc.kind = "returned") =>
          /\ Written(committed).created_at = RequestTime(served)
          /\ Written(committed).updated_at = RequestTime(served)
    /\ (Done /\ req.op \in UpdateOps /\ svc.kind = "returned"
             /\ Written(committed) # Written(before)) =>
          /\ Written(committed).updated_at = RequestTime(served)
          /\ Written(committed).updated_at > Written(committed).created_at
          /\ Written(committed).updated_at > Written(before).updated_at

\* the list request has returned its page
ListReturned ==
    Done /\ req.op = "list_projects_by_customer" /\ svc.kind = "returned"

\* the lengths list_projects_by_customer may return for one page, over the
\* orders the datastore may choose
PageLengths(store, customer_id, status, due_date, limit, page) ==
    {Len(list_projects_by_customer(store, customer_id, status, due_date,
                                   limit, page, order, TRUE).rows) :
        order \in Orderings(store)}

\* the first page of the listing that comes back empty; lens[q] are the
\* lengths page q may have
FirstEmptyPage(lens) ==
    CHOOSE q \in DOMAIN lens :
        0 \in lens[q] /\ \A r \in 1..(q - 1) : 0 \notin lens[r]

\* C18: with nothing written in between, the count of a listing equals the
\* number of entities that pages 1, 2, ... of the same customer, filter and
\* limit return up to the first empty page, and the service gives count and
\* list the same customer, status and cutoff: the total_items it returns is
\* the count for the request's filter and the page it returns has the length
\* of that page of the request's filter.
C18_CountListConsistency ==
    ListReturned =>
        LET cid == CustomerGetByKey(committed, req.key)
            lens == [q \in 1..(Len(committed.projects) + 1) |->
                        PageLengths(committed, cid, req.status, req.due_date,
                                    req.limit, q)]
            stop == FirstEmptyPage(lens)
            returned == {qk \in (1..(stop - 1)) \X (1..req.limit) :
                            \E n \in lens[qk[1]] : qk[2] <= n}
        IN /\ \A q \in DOMAIN lens : Cardinality(lens[q]) = 1
           /\ count_projects_by_customer(committed, cid, req.status,
                                         req.due_date, TRUE).count
                 = Cardinality(returned)
           /\ svc.body.total_items = Cardinality(returned)
           /\ req.page \in DOMAIN lens => Len(svc.body.projects) \in lens[req.page]

\* a listing with a cutoff that keeps two of the customer's projects, whose
\* second page of one is returned
C18_Witness ==
    /\ ListReturned
    /\ req.due_date # NoDate /\ req.limit = 1 /\ req.page = 2
    /\ svc.body.total_items = 2
    /\ Len(svc.body.projects) = 1
    /\ Len(committed.projects) > svc.body.total_items

\* the external keys of the projects a list response carries
ReturnedKeys(body) == {body.projects[k].project_key : k \in 1..Len(body.projects)}

\* C19: list and count return projects of the customer asked for only, of
\* the status asked for when one is given, and due at or before the cutoff
\* when one is given (a project without due date is not due before any
\* cutoff): every project returned is one of these, total_items is their
\* number, and the first page of a limit that holds them all is exactly
\* these.
C19_FilterSemantics ==
    ListReturned =>
        LET rows == committed.projects
            matching ==
                {i \in 1..Len(rows) :
                    /\ committed.customers[rows[i].customer_id].customer_key = req.key
                    /\ Truthy(req.status) => rows[i].status = req.status
                    /\ req.due_date # NoDate =>
                          /\ rows[i].due_date # NoDate
                          /\ rows[i].due_date * TicksPerDay <= req.due_date}
            keys == {rows[i].project_key : i \in matching}
        IN /\ ReturnedKeys(svc.body) \subseteq keys
           /\ svc.body.total_items = Cardinality(matching)
           /\ (req.page = 1 /\ req.limit >= Cardinality(matching)) =>
                 ReturnedKeys(svc.body) = keys
           /\ \A k \in 1..Len(svc.body.projects) :
                 LET item == svc.body.projects[k]
                 IN /\ item.customer_key = req.key
                    /\ Truthy(req.status) => item.status = req.status
                    /\ req.due_date # NoDate =>
                          (item.due_date # NoDate /\ item.due_date <= req.due_date)

\* the customer has projects due on day 1 and on day 2, both open, another
\* that is closed, and another customer has one: listed with status open and
\* cutoff day 1, only the first comes back
C19_Witness ==
    /\ ListReturned
    /\ req.key = "k1" /\ req.status = "open" /\ req.due_date = 2
    /\ req.page = 1 /\ req.limit = 2
    /\ \E i, j, k, l \in 1..Len(committed.projects) :
          /\ committed.projects[i].customer_id = 1
          /\ committed.projects[i].status = "open"
          /\ committed.projects[i].due_date = 1
          /\ committed.projects[j].customer_id = 1
          /\ committed.projects[j].status = "open"
          /\ committed.projects[j].due_date = 2
          /\ committed.projects[k].customer_id = 1
          /\ committed.projects[k].status = "closed"
          /\ committed.projects[l].customer_id = 2
          /\ ReturnedKeys(svc.body) = {committed.projects[i].project_key}
    /\ svc.body.total_items = 1

\* the request before this one was a page of the same listing that returned
SameListingBefore ==
    /\ last.req.op = "list_projects_by_customer"
    /\ last.resp.kind = "returned"
    /\ last.req = [req EXCEPT !.page = last.req.page]

\* the keys of the window [(page - 1) * limit, page * limit) of the filtered
\* set taken in the given order
WindowKeys(store, customer_id, r, order) ==
    LET rows == list_projects_by_customer(store, customer_id, r.status,
                                          r.due_date, r.limit, r.page,
                                          order, TRUE).rows
    IN {store.projects[rows[k]].project_key : k \in 1..Len(rows)}

\* C20 as stated: page p of limit n is the window [(p-1)*n, p*n) of one
\* consistent ordering of the filtered set: with nothing written in between,
\* two pages of one listing are windows of the same ordering, different
\* pages share no project, and a page past the last returns no entity and
\* no error.
C20_AsStated ==
    ListReturned =>
        LET cid == CustomerGetByKey(committed, req.key)
        IN /\ \E order \in Orderings(committed) :
                 /\ ReturnedKeys(resp.body) = WindowKeys(committed, cid, req, order)
                 /\ SameListingBefore =>
                       ReturnedKeys(last.resp.body)
                          = WindowKeys(committed, cid, last.req, order)
           /\ (SameListingBefore /\ last.req.page # req.page) =>
                 ReturnedKeys(resp.body) \cap ReturnedKeys(last.resp.body) = {}
           /\ req.page > resp.body.total_pages => resp.body.projects = << >>

\* C21: the paginated response carries total_pages = ceil(total_items /
\* limit), which is 0 when there are no items; total_items is the count for
\* the request's filter, current_page the page asked for and limit the limit
\* asked for.
C21_PaginationArithmetic ==
    ListReturned =>
        LET body == svc.body
            cid == CustomerGetByKey(committed, req.key)
        IN /\ body.total_pages >= 0
           /\ body.total_pages * req.limit >= body.total_items
           /\ body.total_pages > 0 =>
                 (body.total_pages - 1) * req.limit < body.total_items
           /\ body.total_items
                 = count_projects_by_customer(committed, cid, req.status,
                                              req.due_date, TRUE).count
           /\ body.current_page = req.page
           /\ body.limit = req.limit

\* three items in pages of two: two pages
C21_Witness ==
    /\ ListReturned
    /\ svc.body.total_items = 3 /\ svc.body.limit = 2
    /\ svc.body.total_pages = 2 /\ svc.body.current_page = 2

\* C22 as stated: with include_activities true every project of the response
\* carries the list of its activities, one entry per activity of that
\* project; with include_activities false no project of the response carries
\* activities.
C22_AsStated ==
    ListReturned =>
        \A k \in 1..Len(svc.body.projects) :
            LET item == svc.body.projects[k]
                mine == {i \in 1..Len(committed.activities) :
                            committed.projects[committed.activities[i].project_id].project_key
                               = item.project_key}
            IN IF req.include_activities
               THEN /\ "activities" \in DOMAIN item
                    /\ Len(item.activities) = Cardinality(mine)
               ELSE "activities" \notin DOMAIN item

\* the requests in flight: accepted by the server and not yet answered
InFlight == {c \in Clients : loop.at[c] # "away"}

C25_RollbackFailurePropagates ==
    /\ (pc = "finally" /\ Called("rollback raised")) => exc = OperationalError
    /\ (Done /\ Called("rollback raised")) =>
          /\ LastCalls(3) = <<"rollback", "rollback raised", "close">>
          /\ resp = Raised(OperationalError)
          /\ resp # Raised(svc.exc)

\* a create whose commit failed, whose rollback failed as well, closed
C25_Witness ==
    /\ Done /\ Called("rollback raised")
    /\ req.op = "create_customer" /\ Called("commit")
    /\ svc = Raised(InternalError)
    /\ resp = Raised(OperationalError)
    /\ calls[Len(calls)] = "close"

\* the request that was received last, answered or not, carried the
\* configured key
KeyMatched == auth.header = API_KEY

\* the request whose header was read has been answered, and no other since
Answered == Done /\ auth.for + 1 = served

\* C26: an endpoint function of a customer, project or activity route, and
\* with it the session and the service method, runs only for a request whose
\* api-key header equals the configured key; a request to such a route
\* whose header is missing or different is answered HTTP 401 "Invalid or
\* missing API Key" with no session opened, no call made and the store as it
\* was; the health check is answered whatever the header.
C26_AuthenticationGate ==
    /\ pc # "idle" => KeyMatched
    /\ (Answered /\ calls # << >>) => KeyMatched
    /\ (Answered /\ req.op \in GatedOps /\ ~KeyMatched) =>
          /\ resp = Raised(HTTPException(401, "Invalid or missing API Key"))
          /\ calls = << >>
          /\ svc = NoResult
          /\ committed = before /\ work = committed
    /\ (Answered /\ req.op = "ping_health_check") =>
          /\ resp = Returned([status |-> "ok"])
          /\ calls = << >>
          /\ committed = before

\* a create sent without the header to a store that has rows, answered 401
C26_Witness ==
    /\ Done /\ req.op = "create_customer" /\ auth.header = None
    /\ resp = Raised(HTTPException(401, "Invalid or missing API Key"))
    /\ committed = before /\ committed.customers # << >>

HTTP_200_OK == 200
HTTP_201_CREATED == 201

\* the status_code the route decorator declares for a response that returns
RouteStatusCode(op) ==
    IF op \in {"create_customer", "create_project"}
    THEN HTTP_201_CREATED
    ELSE HTTP_200_OK

\* the status code of the HTTP response: the route's for a return, the
\* HTTPException's own, 500 for any other exception
ResponseStatus(op, result) ==
    IF result.kind = "returned" THEN RouteStatusCode(op)
    ELSE IF result.exc.type = "HTTPException" THEN result.exc.status_code
    ELSE HTTP_500_INTERNAL_SERVER_ERROR

\* C27 as stated: a POST /v1/customer and a POST /v1/project that succeed
\* are answered with HTTP status code 200.
C27_AsStated ==
    (Done /\ req.op \in {"create_customer", "create_project"}
          /\ resp.kind = "returned") =>
        ResponseStatus(req.op, resp) = 200

\* C28 as stated: check_variables raises an OSError whose message contains
\* "please verify these variables without values" whenever one of
\* SERVICE_NAME, APP_ENV, PROJECT_ENV is the empty string, and returns
\* without error when all of them have non-empty values.
C28_AsStated ==
    req.op = "check_variables" =>
        IF \E n \in RequiredVariables : environ[n] = ""
        THEN /\ resp.kind = "raised"
             /\ resp.exc.type = "OSError"
             /\ resp.exc.detail = "A Error occurred while checking variables, please verify these variables without values"
        ELSE (\A n \in RequiredVariables : environ[n] # None) =>
                resp.kind = "returned"

\* the repository calls a service makes
RepositoryCalls ==
    {"customer_repository.get_by_key", "customer_repository.create",
     "customer_repository.update", "project_repository.get_by_key",
     "project_repository.create", "project_repository.update",
     "project_repository.count_projects_by_customer",
     "project_repository.list_projects_by_customer",
     "activity_repository.get_by_key", "activity_repository.create",
     "activity_repository.update"}

\* the positions in the request's call sequence where `call` was made
PositionsOf(call) == {i \in 1..Len(calls) : calls[i] = call}

\* C29: repository create and update only stage changes and never commit;
\* every service create or update that returns commits exactly once, after
\* all of the request's repository calls and before the response is built;
\* service get and list methods never commit and leave the store unchanged.
C29_CommitDiscipline ==
    /\ PositionsOf("commit") = {} => committed = before
    /\ (req.op \in WriteOps /\ svc.kind = "returned") =>
          /\ Cardinality(PositionsOf("commit")) = 1
          /\ \A i \in 1..Len(calls) :
                calls[i] \in RepositoryCalls =>
                    \A c \in PositionsOf("commit") : i < c
          /\ \A c \in PositionsOf("commit"), m \in PositionsOf("model_validate") : c < m
          /\ PositionsOf("model_validate") # {}
    /\ (req.op \in GatedOps \ WriteOps) =>
          /\ PositionsOf("commit") = {}
          /\ committed = before

\* an update that staged a change, committed it and returned
C29_Witness ==
    /\ Done /\ req.op = "update_project" /\ svc.kind = "returned"
    /\ Called("project_repository.update")
    /\ committed # before

\* the table a request writes to
TableOf(op) ==
    IF op \in {"create_customer", "get_customer", "update_customer"} THEN "customers"
    ELSE IF op \in {"create_activity", "get_activity", "update_activity"} THEN "activities"
    ELSE "projects"

\* the earlier request raised after staging changes that never became durable
FailedAfterStaging ==
    /\ last # NoLast
    /\ last.resp.kind = "raised"
    /\ last.staged # before

\* C30: changes staged by a request that fails after staging are never
\* committed by a later request, although the later request is handed the
\* same session object; when session_scope is left the session holds no
\* pending changes.
C30_NoLeakage ==
    /\ pc = "idle" => work = committed
    /\ calls = <<"Session()">> => work = committed
    /\ (FailedAfterStaging /\ PositionsOf("commit") = {}) => committed = before
    /\ (FailedAfterStaging /\ TableOf(req.op) # TableOf(last.req.op)) =>
          committed[TableOf(last.req.op)] = before[TableOf(last.req.op)]

\* a create_customer staged a row, its commit and its rollback failed, and a
\* later create_project committed its own row and returned
C30_Witness ==
    /\ Done /\ FailedAfterStaging
    /\ last.req.op = "create_customer"
    /\ \E i \in 1..Len(last.staged.customers) :
          last.staged.customers[i] \notin {before.customers[j] : j \in 1..Len(before.customers)}
    /\ req.op = "create_project" /\ resp.kind = "returned"
    /\ committed.projects # before.projects
    /\ committed.customers = before.customers

====
